---- MODULE Spec2Model ----
(***************************************************************************)
(* Model of the bank-statement import engine of felipesickbp/pilot:        *)
(*   backend/app/services/apply_mapping.py  (row extractor, compound row   *)
(*       expander, amount resolver, transaction and posting builder)       *)
(*   backend/main.py  (table candidate detector, header normaliser)        *)
(*                                                                         *)
(* Conventions.  Text is a sequence of one-character strings wherever the  *)
(* code works on characters (header normalisation).  Cell texts of the     *)
(* data rows are string literals; the parsing helpers are given by their   *)
(* value on each cell text of the vocabulary.  Amounts are integers in     *)
(* hundredths (0.02 is 2, exact arithmetic).  An optional value is the     *)
(* record [some, v].                                                       *)
(***************************************************************************)
EXTENDS Integers, Sequences, FiniteSets, TLC

VARIABLES
    \* ---- header normalisation (both normalisers, applied once and twice)
    hdr_pc, hdr_s, hdr_once, hdr_twice, cand_once, cand_twice,
    \* ---- applyMapping (apply_mapping_csv_bytes): inputs
    all_rows,          \* the rows csv.reader returns, each a sequence of cell texts
    template,          \* the mapping template
    bank_account_gl,   \* "" when the caller gives none
    \* ---- applyMapping: locals and outputs
    pc, headers_norm,
    extracted,         \* parsed_rows as the Row Extractor built them
    parsed_rows,       \* the list per-row field resolution iterates
    pos,               \* position of the resolution loop in parsed_rows
    transactions, postings_draft, errors, result,
    \* ---- analyzeCandidates (_analyze_csv_candidates of main.py)
    an_pc,
    lines,             \* the lines of the decoded text
    delimiters,        \* the delimiters tried, in order
    pairs,             \* the (delimiter, header_row) pairs the loops visit
    an_pos,            \* position of the loops in pairs
    candidates,
    an_result,         \* the list returned
    an_error,          \* the detail of the HTTP 400 raised, "" when none
    \* ---- analyzeCandidates called twice on one file
    rep_calls,         \* the number of calls made
    rep_oracle,        \* what the library calls answer on this file
    rep_first,         \* what the first call gave back
    seen_keys,         \* the local seen_keys of the call
    \* ---- _compute_signed_amount called on one row
    amt_pc,            \* "idle", "input", "primary", "done"
    amt_hn,            \* headers_norm
    amt_cells,         \* row: the dict of the row's cells
    amt_tpl,           \* template
    amt_sign,          \* parent_sign: -1, 1, or 0 for None
    amt_res,           \* the _AmountResult returned
    \* ---- /auth/verify and /auth/password-reset/confirm on one email challenge
    au_ch,             \* the row of auth_email_challenges
    au_req,            \* the requests in flight, each with its locals
    au_expired,        \* the challenge's expires_at is not after now
    au_sessions,       \* the rows of auth_sessions created from the challenge
    \* ---- _check_rate_limit on one bucket, called from several threads
    rl_clock,          \* time.time()
    rl_hits,           \* _rate_hits[bucket]
    rl_thr,            \* the calls, each with its local now and its outcome
    \* ---- requests presenting one auth session
    se_clock,          \* _utc_now()
    se_row,            \* the row of auth_sessions
    se_req,            \* the requests in flight, each with its locals
    \* ---- _post_with_backoff
    po_pc, po_max_retries,
    po_attempt,        \* the loop variable
    po_r,              \* status code of the last response
    po_posts,          \* the POSTs sent so far
    po_refreshes,      \* the calls of _refresh_access_token made by the loop
    po_result          \* what the call returned

hdrVars == <<hdr_pc, hdr_s, hdr_once, hdr_twice, cand_once, cand_twice>>

mapInputs == <<all_rows, template, bank_account_gl>>

mapVars == <<all_rows, template, bank_account_gl, pc, headers_norm, extracted,
             parsed_rows, pos, transactions, postings_draft, errors,
             result>>

anVars == <<an_pc, lines, delimiters, pairs, an_pos, candidates, an_result,
            an_error>>

repVars == <<rep_calls, rep_oracle, rep_first, seen_keys>>

amtVars == <<amt_pc, amt_hn, amt_cells, amt_tpl, amt_sign, amt_res>>

authVars == <<au_ch, au_req, au_expired, au_sessions>>
rateVars == <<rl_clock, rl_hits, rl_thr>>
sessVars == <<se_clock, se_row, se_req>>
postVars == <<po_pc, po_max_retries, po_attempt, po_r, po_posts, po_refreshes,
              po_result>>
\* the services around the import engine
svcVars == <<authVars, rateVars, sessVars, postVars>>
\* the import engine
engineVars == <<hdrVars, mapVars, anVars, repVars, amtVars>>

vars == <<hdrVars, mapVars, anVars, repVars, amtVars, svcVars>>

AuthIdle ==
    /\ au_ch = <<>> /\ au_req = <<>> /\ au_expired = FALSE /\ au_sessions = 0
RateIdle == rl_clock = 0 /\ rl_hits = <<>> /\ rl_thr = <<>>
SessIdle == se_clock = 0 /\ se_row = <<>> /\ se_req = <<>>
PostIdle ==
    /\ po_pc = "idle" /\ po_max_retries = 0 /\ po_attempt = 0 /\ po_r = 0
    /\ po_posts = 0 /\ po_refreshes = 0 /\ po_result = <<>>
\* no request to the services is under way
SvcIdle == AuthIdle /\ RateIdle /\ SessIdle /\ PostIdle

\* _compute_signed_amount is not being called on its own
AmtIdle ==
    /\ amt_pc = "idle" /\ amt_hn = <<>> /\ amt_cells = <<>> /\ amt_tpl = <<>>
    /\ amt_sign = 0 /\ amt_res = <<>>

\* no repeated call is under way
RepIdle ==
    /\ rep_calls = 0 /\ rep_oracle = <<>> /\ rep_first = <<>> /\ seen_keys = {}

\* analyzeCandidates is not running
AnIdle ==
    /\ an_pc = "idle" /\ lines = <<>> /\ delimiters = <<>> /\ pairs = <<>>
    /\ an_pos = 0 /\ candidates = <<>> /\ an_result = <<>> /\ an_error = ""

(***************************************************************************)
(* Bounds of the model.                                                    *)
(***************************************************************************)
MaxHeaderLen == 3
MaxRows == 3
MaxLines == 2
MaxRequests == 2
MaxCallers == 4
MaxClock == 3
MaxRetries == 2

(***************************************************************************)
(* Character-level string helpers (Python str / re semantics).             *)
(***************************************************************************)
\* characters the header texts of the model are written with
HeaderAlphabet == {"a", "B", " ", "\t", ".", "_", "(", "-"}

LowerCaseChars == {"a","b","c","d","e","f","g","h","i","j","k","l","m",
                   "n","o","p","q","r","s","t","u","v","w","x","y","z"}
DigitChars == {"0","1","2","3","4","5","6","7","8","9"}
\* the class [a-z0-9_]
WordChars == LowerCaseChars \cup DigitChars \cup {"_"}
\* the class \s
SpaceChars == {" ", "\t"}

\* str.lower() on one character
LowerChar(c) ==
    CASE c = "A" -> "a" [] c = "B" -> "b" [] c = "C" -> "c" [] c = "D" -> "d"
      [] c = "E" -> "e" [] c = "F" -> "f" [] c = "G" -> "g" [] c = "H" -> "h"
      [] c = "I" -> "i" [] c = "J" -> "j" [] c = "K" -> "k" [] c = "L" -> "l"
      [] c = "M" -> "m" [] c = "N" -> "n" [] c = "O" -> "o" [] c = "P" -> "p"
      [] c = "Q" -> "q" [] c = "R" -> "r" [] c = "S" -> "s" [] c = "T" -> "t"
      [] c = "U" -> "u" [] c = "V" -> "v" [] c = "W" -> "w" [] c = "X" -> "x"
      [] c = "Y" -> "y" [] c = "Z" -> "z"
      [] OTHER -> c

StrLower(s) == [i \in 1..Len(s) |-> LowerChar(s[i])]

RECURSIVE LStripSet(_, _)
LStripSet(s, cls) ==
    IF s # <<>> /\ Head(s) \in cls THEN LStripSet(Tail(s), cls) ELSE s

RECURSIVE RStripSet(_, _)
RStripSet(s, cls) ==
    IF s # <<>> /\ s[Len(s)] \in cls
    THEN RStripSet(SubSeq(s, 1, Len(s) - 1), cls) ELSE s

\* str.strip() with no argument strips white space; str.strip(chars) strips chars
StripSet(s, cls) == RStripSet(LStripSet(s, cls), cls)
StrStrip(s) == StripSet(s, SpaceChars)

\* str.replace(a, b) for a one-character a and b of length 0 or 1
RECURSIVE StrReplace(_, _, _)
StrReplace(s, a, b) ==
    IF s = <<>> THEN <<>>
    ELSE (IF Head(s) = a THEN b ELSE <<Head(s)>>) \o StrReplace(Tail(s), a, b)

\* re.sub(r"[cls]+", r, s): every maximal run of characters of cls becomes r
RECURSIVE ReSubRuns(_, _, _)
ReSubRuns(s, cls, r) ==
    IF s = <<>> THEN <<>>
    ELSE IF Head(s) \in cls
         THEN r \o ReSubRuns(LStripSet(s, cls), cls, r)
         ELSE <<Head(s)>> \o ReSubRuns(Tail(s), cls, r)

\* the characters a text of the model can hold
AllChars == HeaderAlphabet \cup WordChars \cup SpaceChars
            \cup {"A","C","D","E","H","K","N","R","S","T","U","V",
                  "/",")",";",",","|",":"}

(***************************************************************************)
(* _normalize_header of apply_mapping.py (the Row Extractor's).            *)
(***************************************************************************)
NormalizeHeader(s) ==
    LET t1 == StrLower(StrStrip(s))
        t2 == StrStrip(ReSubRuns(t1, SpaceChars, <<" ">>))
        t3 == StrReplace(t2, " ", <<"_">>)
        t4 == ReSubRuns(t3, AllChars \ WordChars, <<"_">>)
    IN  StripSet(ReSubRuns(t4, {"_"}, <<"_">>), {"_"})

(***************************************************************************)
(* _normalize_header of main.py (builds a Candidate's headers_normalized). *)
(***************************************************************************)
CandidateNormalizeHeader(s) ==
    LET t1 == StrLower(StrStrip(s))
        t2 == StrReplace(t1, " ", <<"_">>)
        t3 == StrReplace(t2, ".", <<>>)
        t4 == StrReplace(t3, "/", <<"_">>)
        t5 == StrReplace(t4, "-", <<"_">>)
        t6 == StrReplace(t5, "(", <<>>)
    IN  StrReplace(t6, ")", <<>>)

(***************************************************************************)
(* Values.                                                                 *)
(***************************************************************************)
None == [some |-> FALSE, v |-> 0]
Some(x) == [some |-> TRUE, v |-> x]
Abs(x) == IF x < 0 THEN -x ELSE x
Sign(x) == IF x > 0 THEN 1 ELSE IF x < 0 THEN -1 ELSE 0
Max(a, b) == IF a >= b THEN a ELSE b
Range(s) == {s[i] : i \in 1..Len(s)}

\* the spelling of the header cells of the model, character by character
Chars(s) ==
    CASE s = "Datum" -> <<"D","a","t","u","m">>
      [] s = "Text" -> <<"T","e","x","t">>
      [] s = "Betrag" -> <<"B","e","t","r","a","g">>
      [] s = "Betrag Detail" ->
             <<"B","e","t","r","a","g"," ","D","e","t","a","i","l">>
      [] s = "Soll" -> <<"S","o","l","l">>
      [] s = "Haben" -> <<"H","a","b","e","n">>
      [] s = "Kontoauszug" -> <<"K","o","n","t","o","a","u","s","z","u","g">>
      [] s = "Valuta" -> <<"V","a","l","u","t","a">>
      [] s = "Saldo" -> <<"S","a","l","d","o">>
      [] s = "Debit" -> <<"D","e","b","i","t">>
      [] s = "Credit" -> <<"C","r","e","d","i","t">>
      [] s = "Amount" -> <<"A","m","o","u","n","t">>
      [] s = "Date" -> <<"D","a","t","e">>
      [] s = "Konto" -> <<"K","o","n","t","o">>
      [] s = "Ref" -> <<"R","e","f">>
      [] s = "Nr" -> <<"N","r">>
      [] s = "Unnamed: 0" -> <<"U","n","n","a","m","e","d",":"," ","0">>
      [] s = " " -> <<" ">>
      [] s = "Datum;Text,Betrag" -> 
             <<"D","a","t","u","m",";","T","e","x","t",",","B","e","t","r","a","g">>
      [] s = "Datum;Text;Betrag;Saldo" -> 
             <<"D","a","t","u","m",";","T","e","x","t",";","B","e","t","r","a","g",";","S","a","l","d","o">>
      [] s = "Summe" -> <<"S","u","m","m","e">>
      [] s = "Total" -> <<"T","o","t","a","l">>
      [] s = "Einzelbetrag" -> <<"E","i","n","z","e","l","b","e","t","r","a","g">>
      [] s = "Avisierungstext" -> 
             <<"A","v","i","s","i","e","r","u","n","g","s","t","e","x","t">>
      [] s = "" -> <<>>

\* normalised header names the templates of the model select columns by
NoCol == <<>>
ColDatum == <<"d","a","t","u","m">>
ColText == <<"t","e","x","t">>
ColBetrag == <<"b","e","t","r","a","g">>
ColSoll == <<"s","o","l","l">>
ColHaben == <<"h","a","b","e","n">>
ColValuta == <<"v","a","l","u","t","a">>

(***************************************************************************)
(* Parsing helpers of apply_mapping.py, on the cell texts of the model.    *)
(***************************************************************************)
\* str.strip() of a cell text: " " is the one text of the model with white space
\* at its ends
CellStrip(c) == IF c = " " THEN "" ELSE c

\* _looks_like_date: ^\d{4}-\d{2}-\d{2}$ | ^\d{2}\.\d{2}\.\d{4}$ | ^\d{2}\.\d{2}\.\d{2}$
LooksLikeDate(s) ==
    CellStrip(s) \in {"2024-01-05", "2024-01-09", "2024-13-45",
                      "05.01.2024", "31.02.2024"}

\* _parse_date_to_iso: the ISO pattern is returned as it is; otherwise the
\* formats are tried in order with strptime; "null" is None
ParseDateToIso(s, date_formats) ==
    LET t == CellStrip(s)
    IN  IF t \in {"2024-01-05", "2024-01-09", "2024-13-45"} THEN t
        ELSE IF t \in {"05.01.2024", "5.1.2024"}
                /\ "dd.mm.yyyy" \in Range(date_formats) THEN "2024-01-05"
        ELSE "null"

\* _parse_number with decimal_separator "auto", in hundredths
ParseNumber(s) ==
    LET t == CellStrip(s)
    IN  CASE t = "0.00" -> Some(0)
          [] t = "0.01" -> Some(1)
          [] t = "1.00" -> Some(100)
          [] t = "2.00" -> Some(200)
          [] t = "-1.00" -> Some(-100)
          [] t = "-2.00" -> Some(-200)
          [] t = "(1.00)" -> Some(-100)
          [] t \in {"", "n/a", "Miete", "Sammel (3)", "2024-01-05", "2024-01-09",
                    "2024-13-45", "05.01.2024", "31.02.2024", "5.1.2024"} -> None

\* _safe_get: row.get(key, "") stripped; "" for a missing key or no key
SafeGet(cells, key) ==
    IF key = NoCol THEN ""
    ELSE IF key \in DOMAIN cells THEN CellStrip(cells[key]) ELSE ""

RECURSIVE JoinWithSpace(_)
JoinWithSpace(parts) ==
    IF parts = <<>> THEN ""
    ELSE IF Len(parts) = 1 THEN parts[1]
    ELSE parts[1] \o " " \o JoinWithSpace(Tail(parts))

\* _compose_text: the non-empty cells of the text columns joined by one space
\* (the texts of the model hold no runs of white space to collapse)
ComposeText(cells, cols) ==
    JoinWithSpace(SelectSeq([i \in 1..Len(cols) |-> SafeGet(cells, cols[i])],
                            LAMBDA v : v # ""))

\* is_group_parent: re.search(r"\(\d+\)", t) or "sammel" in t, t lower-cased
IsGroupParent(text) == text \in {"Sammel (3)"}

\* k in h, for texts as character sequences
Contains(h, k) ==
    \E i \in 1..(Len(h) - Len(k) + 1) : SubSeq(h, i, i + Len(k) - 1) = k

KwBetragDetail == <<"b","e","t","r","a","g","_","d","e","t","a","i","l">>
KwEinzelbetrag == <<"e","i","n","z","e","l","b","e","t","r","a","g">>
KwBetrag == <<"b","e","t","r","a","g">>
KwAmount == <<"a","m","o","u","n","t">>
AmountKeywords ==
    {KwBetragDetail, KwEinzelbetrag, KwBetrag, KwAmount,
     <<"s","u","m","m","e">>, <<"t","o","t","a","l">>,
     <<"g","u","t","s","c","h","r","i","f","t">>,
     <<"l","a","s","t","s","c","h","r","i","f","t">>}

\* list(dict.fromkeys(s)): first occurrences, in order
RECURSIVE Dedup(_)
Dedup(s) ==
    IF s = <<>> THEN <<>>
    ELSE LET init == SubSeq(s, 1, Len(s) - 1)
             last == s[Len(s)]
         IN  IF last \in Range(init) THEN Dedup(init)
             ELSE Append(Dedup(init), last)

\* a plausible slip: every amount-like header has the same score
FallbackScore_Flat(x) == 3

\* lines 266-273: score
FallbackScore(x) ==
    IF Contains(x, KwBetragDetail) THEN 0
    ELSE IF Contains(x, KwEinzelbetrag) THEN 1
    ELSE IF x \in {KwBetrag, KwAmount} THEN 2
    ELSE 3

\* _find_amount_fallback: the amount-like headers, stably sorted by score
FindAmountFallback(hn) ==
    LET amount_cols == Dedup(SelectSeq(hn,
                          LAMBDA h : \E k \in AmountKeywords : Contains(h, k)))
        OfScore(n) == SelectSeq(amount_cols, LAMBDA h : FallbackScore(h) = n)
    IN  OfScore(0) \o OfScore(1) \o OfScore(2) \o OfScore(3)

DirectionOf(signed) ==
    IF signed > 0 THEN "CRDT" ELSE IF signed < 0 THEN "DBIT" ELSE "null"

\* a plausible slip: a lone debit is negated whatever its sign
DebitCreditAmount_AlwaysNegated(debit, credit) ==
    IF credit.some /\ debit.some THEN Some(credit.v - debit.v)
    ELSE IF credit.some THEN credit
    ELSE IF debit.some THEN Some(-debit.v)
    ELSE None

\* lines 304-309: the signed amount of a debit and a credit cell
DebitCreditAmount(debit, credit) ==
    IF credit.some /\ debit.some THEN Some(credit.v - debit.v)
    ELSE IF credit.some THEN credit
    ELSE IF debit.some THEN Some(IF debit.v < 0 THEN debit.v ELSE -debit.v)
    ELSE None

\* lines 295-309: the mapped column(s)
PrimaryAmount(cells, tpl) ==
    IF tpl.mode = "signed"
    THEN IF tpl.signed_col # NoCol
         THEN ParseNumber(SafeGet(cells, tpl.signed_col)) ELSE None
    ELSE DebitCreditAmount(
             IF tpl.debit_col # NoCol
             THEN ParseNumber(SafeGet(cells, tpl.debit_col)) ELSE None,
             IF tpl.credit_col # NoCol
             THEN ParseNumber(SafeGet(cells, tpl.credit_col)) ELSE None)

\* lines 319-323: v is skipped when None or zero, else it is the fallback value
FallbackHit(v, h, rest) ==
    IF ~v.some \/ v.v = 0 THEN rest ELSE [found |-> TRUE, v |-> v.v, h |-> h]

\* lines 316-323: the first fallback column whose cell parses to a non-zero number
RECURSIVE FirstFallback(_, _)
FirstFallback(cells, fb_cols) ==
    IF fb_cols = <<>> THEN [found |-> FALSE, v |-> 0, h |-> NoCol]
    ELSE FallbackHit(ParseNumber(SafeGet(cells, Head(fb_cols))), Head(fb_cols),
                     FirstFallback(cells, Tail(fb_cols)))

\* a plausible slip: signed * parent_sign, without abs
ForceSign_NoAbs(signed, parent_sign) ==
    IF signed.some /\ parent_sign \in {-1, 1}
    THEN Some(signed.v * parent_sign) ELSE signed

\* lines 325-326: abs(signed) * parent_sign, for parent_sign in (-1, 1)
ForceSign(signed, parent_sign) ==
    IF signed.some /\ parent_sign \in {-1, 1}
    THEN Some(Abs(signed.v) * parent_sign) ELSE signed

\* lines 293 and 322: source is "mapped" or f"fallback:{h}"
SourceMapped == <<"m","a","p","p","e","d">>
SourceFallback(h) == <<"f","a","l","l","b","a","c","k",":">> \o h

\* lines 312, 328: the direction follows the sign of signed
AmountResult(signed, source) ==
    [signed |-> signed,
     direction |-> IF signed.some THEN DirectionOf(signed.v) ELSE "null",
     source |-> source]

\* a plausible slip: the direction is not set again after the fallback search
ResolveAmount_StaleDirection(prim, fb, parent_sign) ==
    [AmountResult(IF ~prim.some \/ prim.v = 0
                  THEN ForceSign(IF fb.found THEN Some(fb.v) ELSE prim, parent_sign)
                  ELSE prim, SourceMapped)
       EXCEPT !.direction = IF prim.some THEN DirectionOf(prim.v) ELSE "null"]

\* a plausible slip: parent_sign is applied to the mapped amount as well
ResolveAmount_ForcePrimary(prim, fb, parent_sign) ==
    IF ~prim.some \/ prim.v = 0
    THEN AmountResult(
             ForceSign(IF fb.found THEN Some(fb.v) ELSE prim, parent_sign),
             IF fb.found THEN SourceFallback(fb.h) ELSE SourceMapped)
    ELSE AmountResult(ForceSign(prim, parent_sign), SourceMapped)

\* lines 311-330: prim is the mapped amount, fb the result of the fallback search
ResolveAmount(prim, fb, parent_sign) ==
    IF ~prim.some \/ prim.v = 0
    THEN AmountResult(
             ForceSign(IF fb.found THEN Some(fb.v) ELSE prim, parent_sign),
             IF fb.found THEN SourceFallback(fb.h) ELSE SourceMapped)
    ELSE AmountResult(prim, SourceMapped)

\* _compute_signed_amount; parent_sign 0 is None
ComputeSignedAmount(cells, hn, tpl, parent_sign) ==
    ResolveAmount(PrimaryAmount(cells, tpl),
                  FirstFallback(cells, FindAmountFallback(hn)),
                  parent_sign)

(***************************************************************************)
(* _expand_compound_rows.  A row is [cells, src]: cells is the dict the    *)
(* extractor built, src the 1-based line of the file the row came from     *)
(* (not in the code: it names the row in the properties).                  *)
(***************************************************************************)
Tol == 2

\* d and _looks_like_date(d)
DateLike(d) == d # "" /\ LooksLikeDate(d)

IsDated(r, date_col) == DateLike(SafeGet(r.cells, date_col))

\* any(str(v).strip() for v in rr.values())
RowNonBlank(r) == \E h \in DOMAIN r.cells : CellStrip(r.cells[h]) # ""

\* lines 360-369: the index of the next dated row from j on, or len(rows) + 1
RECURSIVE NextDated(_, _, _)
NextDated(rows, j, date_col) ==
    IF j > Len(rows) \/ IsDated(rows[j], date_col) THEN j
    ELSE NextDated(rows, j + 1, date_col)

\* lines 360-369: the non-blank rows between parent i and the next dated row
ChildrenOf(rows, i, date_col) ==
    SelectSeq(SubSeq(rows, i + 1, NextDated(rows, i + 1, date_col) - 1),
              LAMBDA rr : RowNonBlank(rr))

\* a plausible slip: the copy is made but the date is not written into it
FixedChild_NoDate(c, date_col, d) == c

\* lines 376-377 and 401-402: c2 = dict(c); c2[date_col] = d
FixedChild(c, date_col, d) ==
    [c EXCEPT !.cells = [h \in DOMAIN c.cells \cup {date_col} |->
                            IF h = date_col THEN d ELSE c.cells[h]]]

\* a plausible slip: the last child is not appended
FixedChildren_DropLast(children, date_col, d) ==
    [k \in 1..(Len(children) - 1) |-> FixedChild(children[k], date_col, d)]

\* lines 373-381: fixed_children
FixedChildren(children, date_col, d) ==
    [k \in 1..Len(children) |-> FixedChild(children[k], date_col, d)]

RECURSIVE SumSeq(_)
SumSeq(s) == IF s = <<>> THEN 0 ELSE Head(s) + SumSeq(Tail(s))

\* lines 379-380: the amounts that are not None and not zero
NonZeroAmounts(amounts) ==
    LET kept == SelectSeq(amounts, LAMBDA a : a.some /\ a.v # 0)
    IN  [k \in 1..Len(kept) |-> kept[k].v]

\* lines 375-381: child_amounts, resolved on the date-filled children with
\* parent_sign
ChildAmounts(children, hn, tpl, d, sign) ==
    NonZeroAmounts(
        [k \in 1..Len(children) |->
            ComputeSignedAmount(FixedChild(children[k], tpl.date_col, d).cells,
                                hn, tpl, sign).signed])

\* a plausible slip: the children's sum is not compared with the parent amount
Reconciles_NoTolerance(child_amounts, parent_amt) == child_amounts # <<>>

\* line 383
Reconciles(child_amounts, parent_amt) ==
    child_amounts # <<>> /\ Abs(SumSeq(child_amounts) - parent_amt) <= Tol

\* a plausible slip: the parent's text is not looked at
GroupQualifies_AnyText(children, parent_text, parent_amt) ==
    /\ children # <<>>
    /\ parent_amt.some /\ parent_amt.v # 0

\* line 371
GroupQualifies(children, parent_text, parent_amt) ==
    /\ children # <<>>
    /\ IsGroupParent(parent_text)
    /\ parent_amt.some /\ parent_amt.v # 0

\* lines 371-383, given the children, the parent's date, text and amount
GroupAccepted(children, d, parent_text, parent_amt, hn, tpl) ==
    /\ GroupQualifies(children, parent_text, parent_amt)
    /\ Reconciles(ChildAmounts(children, hn, tpl, d,
                               IF parent_amt.v > 0 THEN 1 ELSE -1),
                  parent_amt.v)

\* lines 354-383: whether the dated row i is replaced by its children
GroupExpands(rows, i, hn, tpl) ==
    GroupAccepted(ChildrenOf(rows, i, tpl.date_col),
                  SafeGet(rows[i].cells, tpl.date_col),
                  IF tpl.text_cols # <<>>
                  THEN ComposeText(rows[i].cells, tpl.text_cols) ELSE "",
                  ComputeSignedAmount(rows[i].cells, hn, tpl, 0).signed,
                  hn, tpl)

\* lines 348-392: the main scan, from row i on
RECURSIVE ExpandScan(_, _, _, _)
ExpandScan(rows, i, hn, tpl) ==
    IF i > Len(rows) THEN <<>>
    ELSE IF IsDated(rows[i], tpl.date_col) /\ GroupExpands(rows, i, hn, tpl)
    THEN FixedChildren(ChildrenOf(rows, i, tpl.date_col), tpl.date_col,
                       SafeGet(rows[i].cells, tpl.date_col))
         \o ExpandScan(rows, NextDated(rows, i + 1, tpl.date_col), hn, tpl)
    ELSE <<rows[i]>> \o ExpandScan(rows, i + 1, hn, tpl)

\* a plausible slip: every row without a valid date is given the last date
CarriedRow_AnyUndated(r, dd, date_col, last_date) ==
    IF ~DateLike(dd) /\ last_date # ""
    THEN [r EXCEPT !.cells = [@ EXCEPT ![date_col] = last_date]] ELSE r

\* lines 397-402: one row of the post-pass; dd is its stripped date cell
CarriedRow(r, dd, date_col, last_date) ==
    IF ~DateLike(dd) /\ dd = "" /\ last_date # ""
    THEN FixedChild(r, date_col, last_date) ELSE r

\* lines 394-402: the last valid date seen is written into the rows after it
\* whose date cell is empty
RECURSIVE CarryForwardDates(_, _, _)
CarryForwardDates(out, date_col, last_date) ==
    IF out = <<>> THEN <<>>
    ELSE <<CarriedRow(Head(out), SafeGet(Head(out).cells, date_col), date_col,
                      last_date)>>
         \o CarryForwardDates(Tail(out), date_col,
                IF IsDated(Head(out), date_col)
                THEN SafeGet(Head(out).cells, date_col) ELSE last_date)

\* _expand_compound_rows
ExpandCompoundRows(rows, hn, tpl) ==
    IF tpl.date_col = NoCol THEN rows
    ELSE CarryForwardDates(ExpandScan(rows, 1, hn, tpl), tpl.date_col, "")

(***************************************************************************)
(* build_draft_posting                                                     *)
(***************************************************************************)
\* a plausible slip: a negative amount also books the bank account as debit
PostingOf_DebitOnly(label, amount, bank) ==
    [label |-> label,
     amount |-> Abs(amount),
     debit_account |-> IF amount # 0 THEN bank ELSE "",
     credit_account |-> IF amount < 0 THEN bank ELSE ""]

\* lines 412-430, for the amount of lines 408-410
PostingOf(label, amount, bank) ==
    [label |-> label,
     amount |-> Abs(amount),
     debit_account |-> IF amount > 0 THEN bank ELSE "",
     credit_account |-> IF amount > 0 THEN ""
                        ELSE IF amount < 0 THEN bank ELSE ""]

BuildDraftPosting(tx, bank) ==
    PostingOf(tx.text_raw,
              IF tx.amount_signed.some THEN tx.amount_signed.v ELSE 0,
              bank)

(***************************************************************************)
(* apply_mapping_csv_bytes                                                 *)
(***************************************************************************)
\* lines 459-460
HeaderIndex(tpl) == Max(tpl.header_row - 1, 0)
DataIndex(tpl) == Max(tpl.data_start_row - 1, 0)

\* line 462: h_i >= len(all_rows)
HeaderOutOfRange(rows, tpl) == HeaderIndex(tpl) >= Len(rows)

\* a plausible slip: the early return reports no failure
HeaderRangeErrors_Silent == <<>>

\* line 466: the errors the call returns when the header row is out of range
HeaderRangeErrors ==
    << [row_index |-> 0, issues |-> <<"header_out_of_range">>,
        raw |-> [cells |-> <<>>, src |-> 0]] >>

\* lines 472-473
HeadersNorm(headers) ==
    [k \in 1..Len(headers) |-> NormalizeHeader(Chars(headers[k]))]

\* lines 480-483: the row cut or padded to the header length, as a dict (a later
\* column of the same normalised name overwrites an earlier one)
RowDict(hn, row) ==
    [h \in Range(hn) |->
        LET k == CHOOSE k \in 1..Len(hn) :
                    hn[k] = h /\ \A m \in 1..Len(hn) : hn[m] = h => m <= k
        IN  IF k <= Len(row) THEN row[k] ELSE ""]

\* line 478: not row or all((c or "").strip() == "" for c in row)
RawRowBlank(row) == \A k \in 1..Len(row) : CellStrip(row[k]) = ""

\* lines 475-484: the rows from index d_i on (0-based ridx), blank ones skipped
RECURSIVE ExtractRows(_, _, _)
ExtractRows(rows, ridx, hn) ==
    IF ridx >= Len(rows) THEN <<>>
    ELSE (IF RawRowBlank(rows[ridx + 1]) THEN <<>>
          ELSE <<[cells |-> RowDict(hn, rows[ridx + 1]), src |-> ridx + 1]>>)
         \o ExtractRows(rows, ridx + 1, hn)

\* lines 524-528: valuta_iso; the cell is parsed only when a valuta column is
\* mapped and the cell is not empty
ValutaIso(cells, tpl) ==
    IF tpl.valuta_col # NoCol /\ SafeGet(cells, tpl.valuta_col) # ""
    THEN ParseDateToIso(SafeGet(cells, tpl.valuta_col), tpl.date_formats)
    ELSE "null"

\* a plausible slip: `if not ar.signed` for `if ar.signed is None`
RowIssues_ZeroIsMissing(booking_iso, text_raw, ar) ==
    (IF booking_iso = "null" THEN <<"invalid_date">> ELSE <<>>)
    \o (IF text_raw = "" THEN <<"missing_text">> ELSE <<>>)
    \o (IF ~ar.signed.some \/ ar.signed.v = 0 THEN <<"missing_amount">> ELSE <<>>)

\* lines 519-542: the issues of a row, in the order they are recorded
RowIssues(booking_iso, text_raw, ar) ==
    (IF booking_iso = "null" THEN <<"invalid_date">> ELSE <<>>)
    \o (IF text_raw = "" THEN <<"missing_text">> ELSE <<>>)
    \o (IF ~ar.signed.some THEN <<"missing_amount">> ELSE <<>>)

\* a plausible slip: the status is not derived from the issues
TransactionOf_AlwaysOk(idx, raw_row, booking_iso, valuta_iso, text_raw, ar, issues) ==
    [row_index |-> idx,
     booking_date |-> booking_iso,
     valuta_date |-> valuta_iso,
     amount_signed |-> ar.signed,
     direction |-> ar.direction,
     text_raw |-> text_raw,
     raw |-> raw_row,
     status |-> "ok",
     issues |-> issues]

\* lines 544-563
TransactionOf(idx, raw_row, booking_iso, valuta_iso, text_raw, ar, issues) ==
    [row_index |-> idx,
     booking_date |-> booking_iso,
     valuta_date |-> valuta_iso,
     amount_signed |-> ar.signed,
     direction |-> ar.direction,
     text_raw |-> text_raw,
     raw |-> raw_row,
     status |-> IF issues = <<>> THEN "ok" ELSE "error",
     issues |-> issues]

ResolvedRow(idx, raw_row, booking_iso, valuta_iso, text_raw, ar) ==
    TransactionOf(idx, raw_row, booking_iso, valuta_iso, text_raw, ar,
                  RowIssues(booking_iso, text_raw, ar))

\* lines 516-563: the transaction built for a row
BuildTransaction(idx, raw_row, hn, tpl) ==
    ResolvedRow(idx, raw_row,
                ParseDateToIso(SafeGet(raw_row.cells, tpl.date_col),
                               tpl.date_formats),
                ValutaIso(raw_row.cells, tpl),
                ComposeText(raw_row.cells, tpl.text_cols),
                ComputeSignedAmount(raw_row.cells, hn, tpl, 0))

\* lines 451-484: read the table; a header row beyond the file ends the call
ReadTable ==
    /\ pc = "start"
    /\ IF HeaderOutOfRange(all_rows, template)
       THEN /\ pc' = "done"
            /\ errors' = HeaderRangeErrors
            /\ result' = [rows_ok |-> 0, rows_error |-> 1]
            /\ UNCHANGED <<headers_norm, extracted>>
       ELSE /\ pc' = "extracted"
            /\ headers_norm' = HeadersNorm(all_rows[HeaderIndex(template) + 1])
            /\ extracted' = ExtractRows(all_rows, DataIndex(template), headers_norm')
            /\ UNCHANGED <<errors, result>>
    /\ UNCHANGED <<mapInputs, parsed_rows, pos, transactions, postings_draft>>
    /\ UNCHANGED <<hdrVars, anVars, repVars, amtVars, svcVars>>

\* a plausible slip: the flag is not looked at
PreprocessRows_AlwaysExpand(rows, hn, tpl) == ExpandCompoundRows(rows, hn, tpl)

\* lines 489-490
PreprocessRows(rows, hn, tpl) ==
    IF tpl.explode THEN ExpandCompoundRows(rows, hn, tpl) ELSE rows

\* lines 486-490: the expander, when preprocessing.explode_compound_rows is set
Preprocess ==
    /\ pc = "extracted"
    /\ parsed_rows' = PreprocessRows(extracted, headers_norm, template)
    /\ pos' = 1
    /\ pc' = "resolving"
    /\ UNCHANGED <<mapInputs, headers_norm, extracted, transactions,
                   postings_draft, errors, result>>
    /\ UNCHANGED <<hdrVars, anVars, repVars, amtVars, svcVars>>

\* a plausible slip: an error row is skipped without being reported
Emit_DropError(tx, max_fail, bank) ==
    IF tx.status = "error" /\ max_fail = 0
    THEN UNCHANGED <<errors, transactions, postings_draft>>
    ELSE /\ transactions' = Append(transactions, tx)
         /\ postings_draft' = IF bank # ""
                              THEN Append(postings_draft, BuildDraftPosting(tx, bank))
                              ELSE postings_draft
         /\ UNCHANGED errors

\* lines 565-571: the row goes to errors[] or to transactions[] (and postings)
Emit(tx, max_fail, bank) ==
    IF tx.status = "error" /\ max_fail = 0
    THEN /\ errors' = Append(errors, [row_index |-> tx.row_index,
                                      issues |-> tx.issues,
                                      raw |-> tx.raw])
         /\ UNCHANGED <<transactions, postings_draft>>
    ELSE /\ transactions' = Append(transactions, tx)
         /\ postings_draft' = IF bank # ""
                              THEN Append(postings_draft, BuildDraftPosting(tx, bank))
                              ELSE postings_draft
         /\ UNCHANGED errors

\* lines 516-571: one pass of the resolution loop
ResolveRow ==
    /\ pc = "resolving"
    /\ pos <= Len(parsed_rows)
    /\ Emit(BuildTransaction(template.data_start_row + pos - 1, parsed_rows[pos],
                             headers_norm, template),
            template.max_fail, bank_account_gl)
    /\ pos' = pos + 1
    /\ UNCHANGED <<mapInputs, pc, headers_norm, extracted, parsed_rows, result>>
    /\ UNCHANGED <<hdrVars, anVars, repVars, amtVars, svcVars>>

\* lines 573-580
Return ==
    /\ pc = "resolving"
    /\ pos > Len(parsed_rows)
    /\ result' = [rows_ok |-> Len(transactions), rows_error |-> Len(errors)]
    /\ pc' = "done"
    /\ UNCHANGED <<mapInputs, headers_norm, extracted, parsed_rows, pos,
                   transactions, postings_draft, errors>>
    /\ UNCHANGED <<hdrVars, anVars, repVars, amtVars, svcVars>>

MapNext == ReadTable \/ Preprocess \/ ResolveRow \/ Return

(***************************************************************************)
(* Header normalisation as a state machine: a header text is drawn, then   *)
(* each normaliser is applied to it, and again to its own result.          *)
(***************************************************************************)
RECURSIVE StringsUpTo(_, _)
StringsUpTo(alphabet, n) ==
    IF n = 0 THEN {<<>>}
    ELSE LET shorter == StringsUpTo(alphabet, n - 1)
         IN  shorter \cup {Append(s, c) : s \in shorter, c \in alphabet}

HeaderTexts == StringsUpTo(HeaderAlphabet, MaxHeaderLen)

\* the Row Extractor normalises the header (apply_mapping.py)
NormalizeForExtractor ==
    /\ hdr_pc = "input"
    /\ hdr_once' = NormalizeHeader(hdr_s)
    /\ hdr_twice' = NormalizeHeader(NormalizeHeader(hdr_s))
    /\ hdr_pc' = "extractor_done"
    /\ UNCHANGED <<hdr_s, cand_once, cand_twice>>
    /\ UNCHANGED <<mapVars, anVars, repVars, amtVars, svcVars>>

\* the candidate builder normalises the same header (main.py)
NormalizeForCandidate ==
    /\ hdr_pc = "extractor_done"
    /\ cand_once' = CandidateNormalizeHeader(hdr_s)
    /\ cand_twice' = CandidateNormalizeHeader(CandidateNormalizeHeader(hdr_s))
    /\ hdr_pc' = "done"
    /\ UNCHANGED <<hdr_s, hdr_once, hdr_twice>>
    /\ UNCHANGED <<mapVars, anVars, repVars, amtVars, svcVars>>

HdrNext == NormalizeForExtractor \/ NormalizeForCandidate

(***************************************************************************)
(* Inputs.                                                                 *)
(***************************************************************************)
RECURSIVE SeqsUpTo(_, _)
SeqsUpTo(S, n) ==
    IF n = 0 THEN {<<>>}
    ELSE LET shorter == SeqsUpTo(S, n - 1)
         IN  shorter \cup {Append(s, x) : s \in shorter, x \in S}

DefaultDateFormats == <<"yyyy-mm-dd", "dd.mm.yyyy", "dd.mm.yy">>

\* a statement with one signed amount column and a detail amount column
HeaderSigned == <<"Datum", "Text", "Betrag", "Betrag Detail">>
\* a statement with a debit and a credit column and a detail amount column
HeaderDebitCredit == <<"Datum", "Text", "Soll", "Haben", "Betrag Detail">>
Preamble == <<"Kontoauszug">>

TemplateFor(mode, header_row, data_start_row, explode, max_fail) ==
    [header_row |-> header_row, data_start_row |-> data_start_row,
     mode |-> mode, date_col |-> ColDatum, valuta_col |-> NoCol,
     text_cols |-> <<ColText>>,
     signed_col |-> IF mode = "signed" THEN ColBetrag ELSE NoCol,
     debit_col |-> IF mode = "signed" THEN NoCol ELSE ColSoll,
     credit_col |-> IF mode = "signed" THEN NoCol ELSE ColHaben,
     date_formats |-> DefaultDateFormats,
     explode |-> explode, max_fail |-> max_fail]

\* the data rows the statements of the model are made of (HeaderSigned layout)
RowCatalog ==
    { <<"2024-01-05", "Sammel (3)", "2.00", "">>,    \* group parent, +2.00
      <<"2024-01-05", "Sammel (3)", "-2.00", "">>,   \* group parent, -2.00
      <<"2024-01-05", "Sammel (3)", "0.01", "">>,    \* group parent, +0.01
      <<"2024-01-05", "Sammel (3)", "", "1.00">>,    \* group parent, detail amount only
      <<"", "Miete", "", "1.00">>,                   \* detail row, 1.00
      <<"", "Miete", "", "">>,                       \* detail row, no amount
      <<"n/a", "Miete", "2.00", "">>,                \* undated, mapped amount
      <<"2024-01-09", "Miete", "1.00", "">>,         \* ordinary dated row
      <<"", "", "", "">> }                           \* blank line

MapStart ==
    /\ pc = "start"
    /\ headers_norm = <<>> /\ extracted = <<>>
    /\ parsed_rows = <<>> /\ pos = 0
    /\ transactions = <<>> /\ postings_draft = <<>> /\ errors = <<>>
    /\ result = [rows_ok |-> 0, rows_error |-> 0]

\* a statement of up to MaxRows data rows under its header (with or without a
\* preamble line), or a file that ends before the header row of the template
InitTable ==
    /\ \E rows \in SeqsUpTo(RowCatalog, MaxRows), hr \in {1, 2}, cut \in BOOLEAN :
         LET full == (IF hr = 2 THEN <<Preamble>> ELSE <<>>)
                     \o <<HeaderSigned>> \o rows
         IN  /\ cut => rows = <<>>
             /\ all_rows = IF cut THEN SubSeq(full, 1, hr - 1) ELSE full
             /\ \E dsr \in {hr + 1, hr + 2}, explode \in BOOLEAN, mf \in {0, 1} :
                  /\ hr = 2 => dsr = hr + 1
                  /\ template = TemplateFor("signed", hr, dsr, explode, mf)
    /\ bank_account_gl = "1020"
    /\ MapStart

DateCells == {"", "2024-01-05", "05.01.2024", "31.02.2024", "5.1.2024",
              "2024-13-45", "n/a"}
TextCells == {"", "Miete", "Sammel (3)"}
AmountCells == {"", "0.00", "1.00", "-2.00", "(1.00)"}
DetailCells == {"", "0.00", "1.00", "-1.00"}

\* a statement of one data row, its cells drawn freely, in either amount mode
InitSingleRow ==
    /\ \E d \in DateCells, t \in TextCells, a \in AmountCells, b \in AmountCells,
          x \in DetailCells, mode \in {"signed", "debit_credit"}, mf \in {0, 1} :
         /\ mode = "signed" => b = ""
         /\ all_rows = IF mode = "signed"
                       THEN <<HeaderSigned, <<d, t, a, x>> >>
                       ELSE <<HeaderDebitCredit, <<d, t, a, b, x>> >>
         /\ template = TemplateFor(mode, 1, 2, TRUE, mf)
    /\ bank_account_gl \in {"", "1020"}
    /\ MapStart

\* a statement with a value date column
HeaderValuta == HeaderSigned \o <<"Valuta">>
ValutaCells == {"", "2024-01-09", "05.01.2024", "31.02.2024", "n/a"}

\* a statement of one data row with a value date cell; the template maps the
\* value date column or leaves it unmapped
InitValutaRow ==
    /\ \E d \in {"2024-01-05", "n/a"}, t \in {"", "Miete"},
          a \in {"", "0.00", "1.00"}, v \in ValutaCells,
          vcol \in {NoCol, ColValuta}, mf \in {0, 1} :
         /\ all_rows = <<HeaderValuta, <<d, t, a, "", v>> >>
         /\ template = [TemplateFor("signed", 1, 2, TRUE, mf)
                           EXCEPT !.valuta_col = vcol]
    /\ bank_account_gl = "1020"
    /\ MapStart

\* a statement in which two columns have the same header
HeaderRepeated == <<"Datum", "Text", "Betrag", "Betrag">>
\* data rows shorter than, as long as, and longer than a header of four columns
RaggedRows ==
    { <<"2024-01-05", "Miete", "1.00">>,
      <<"2024-01-05", "Miete", "1.00", "">>,
      <<"2024-01-05", "Miete", "1.00", "2.00">>,
      <<"2024-01-05", "Miete", "", "1.00", "2.00">>,
      <<"", "", "", "", "2.00">> }

\* a statement of one data row whose length need not be the header's
InitRaggedRow ==
    /\ \E h \in {HeaderSigned, HeaderRepeated}, row \in RaggedRows, mf \in {0, 1} :
         /\ all_rows = <<h, row>>
         /\ template = TemplateFor("signed", 1, 2, TRUE, mf)
    /\ bank_account_gl = "1020"
    /\ MapStart

\* a row whose cells under the header are all blank: the file's line holds a
\* value beyond the last header column, so the extractor does not skip it
LongBlankRow == <<"", "", "", "", "2.00">>
GroupRows ==
    { <<"", "Miete", "", "1.00">>, LongBlankRow,
      <<"2024-01-09", "Miete", "1.00", "">> }

\* a group parent followed by up to three rows, blank rows among them
InitGroupWithBlank ==
    /\ \E parent \in { <<"2024-01-05", "Sammel (3)", "2.00", "">>,
                        <<"2024-01-05", "Sammel (3)", "", "1.00">> },
          rest \in SeqsUpTo(GroupRows, 3), explode \in BOOLEAN :
         /\ LongBlankRow \in Range(rest)
         /\ all_rows = <<HeaderSigned, parent>> \o rest
         /\ template = TemplateFor("signed", 1, 2, explode, 1)
    /\ bank_account_gl = "1020"
    /\ MapStart

MapIdle ==
    /\ pc = "idle"
    /\ all_rows = <<>> /\ template = <<>> /\ bank_account_gl = ""
    /\ headers_norm = <<>> /\ extracted = <<>>
    /\ parsed_rows = <<>> /\ pos = 0
    /\ transactions = <<>> /\ postings_draft = <<>> /\ errors = <<>>
    /\ result = [rows_ok |-> 0, rows_error |-> 0]

HdrIdle ==
    /\ hdr_pc = "idle" /\ hdr_s = <<>>
    /\ hdr_once = <<>> /\ hdr_twice = <<>>
    /\ cand_once = <<>> /\ cand_twice = <<>>

HdrInit ==
    /\ hdr_pc = "input"
    /\ hdr_s \in HeaderTexts
    /\ hdr_once = <<>> /\ hdr_twice = <<>>
    /\ cand_once = <<>> /\ cand_twice = <<>>
    /\ MapIdle /\ AnIdle /\ RepIdle /\ AmtIdle /\ SvcIdle

Init ==
    /\ \/ InitTable \/ InitSingleRow \/ InitValutaRow \/ InitRaggedRow
       \/ InitGroupWithBlank
    /\ HdrIdle /\ AnIdle /\ RepIdle /\ AmtIdle /\ SvcIdle

Next == MapNext

\* applyMapping on one file and template
Spec == Init /\ [][Next]_vars


(***************************************************************************)
(* The table candidate detector of main.py.                                *)
(***************************************************************************)
Min(a, b) == IF a <= b THEN a ELSE b

\* str.count(d) for a one-character d
CountChar(s, d) == Cardinality({i \in 1..Len(s) : s[i] = d})

\* str.startswith
StartsWith(s, p) == Len(s) >= Len(p) /\ SubSeq(s, 1, Len(p)) = p

\* sep.join(parts), for texts as character sequences
RECURSIVE JoinChars(_, _)
JoinChars(parts, sep) ==
    IF parts = <<>> THEN <<>>
    ELSE IF Len(parts) = 1 THEN parts[1]
    ELSE parts[1] \o <<sep>> \o JoinChars(Tail(parts), sep)

\* lines 1043-1053: how often line i (0-based) is appended to rows
RowAppends(stripped, low, delimiter, i) ==
    (IF CountChar(stripped, delimiter) >= 1 THEN <<i>> ELSE <<>>)
    \o (IF CountChar(stripped, delimiter) >= 3 THEN <<i>> ELSE <<>>)
    \o (IF StartsWith(low, <<"d","a","t","u","m">> \o <<delimiter>>)
        THEN <<i>> ELSE <<>>)
    \o (IF Contains(low, <<"a","v","i","s","i","e","r","u","n","g","s","t","e","x","t">>)
        THEN <<i>> ELSE <<>>)

\* lines 1036-1053: rows after the first n of the lines
RECURSIVE HeaderRowsRaw(_, _, _)
HeaderRowsRaw(first_lines, delimiter, n) ==
    IF n = 0 THEN <<>>
    ELSE HeaderRowsRaw(first_lines, delimiter, n - 1)
         \o (IF StrStrip(first_lines[n]) = <<>> THEN <<>>
             ELSE RowAppends(StrStrip(first_lines[n]),
                             StrLower(StrStrip(first_lines[n])), delimiter, n - 1))

\* lines 1056-1062: _candidate_header_rows, unique in order, at most 8
CandidateHeaderRows(file_lines, delimiter) ==
    LET first_lines == SubSeq(file_lines, 1, Min(Len(file_lines), 20))
        out == Dedup(HeaderRowsRaw(first_lines, delimiter, Len(first_lines)))
    IN  SubSeq(out, 1, Min(Len(out), 8))

\* lines 972-987: the keywords of _score_candidate
ScoreKeywords ==
    { <<"d","a","t","u","m">>,
      <<"d","a","t","e">>,
      <<"v","a","l","u","t","a">>,
      <<"a","v","i","s","i","e","r","u","n","g","s","t","e","x","t">>,
      <<"b","e","s","c","h","r","e","i","b","u","n","g">>,
      <<"t","e","x","t">>,
      <<"s","a","l","d","o">>,
      <<"b","a","l","a","n","c","e">>,
      <<"g","u","t","s","c","h","r","i","f","t">>,
      <<"l","a","s","t","s","c","h","r","i","f","t">>,
      <<"d","e","b","i","t">>,
      <<"c","r","e","d","i","t">>,
      <<"b","e","t","r","a","g">>,
      <<"a","m","o","u","n","t">> }

\* line 967: a header that is not empty and not one pandas made up
NamedHeaders(hn) ==
    {k \in 1..Len(hn) :
        hn[k] # <<>> /\ ~StartsWith(hn[k], <<"u","n","n","a","m","e","d",":">>)}

\* lines 961-995: the score in hundredths, before the cap
RawScore(n_rows, header_row, hn) ==
    Min(Len(hn), 12) * 5
    + Min(Cardinality(NamedHeaders(hn)), 12) * 4
    + Min(Cardinality({k \in ScoreKeywords : Contains(JoinChars(hn, " "), k)}), 8) * 8
    + Min(n_rows, 20)
    + (IF header_row <= 10 THEN 5 ELSE 0)

\* a plausible slip: the score is returned without the cap of 0.99
ScoreCandidate_Uncapped(n_rows, header_row, hn) == RawScore(n_rows, header_row, hn)

\* line 998: round(min(score, 0.99), 2), in hundredths
ScoreCandidate(n_rows, header_row, hn) == Min(RawScore(n_rows, header_row, hn), 99)

\* lines 1008-1023: _build_candidate, given headers_normalized
CandidateOf(hn, n_rows, delimiter, header_row) ==
    [id |-> <<"h", header_row, delimiter>>,
     delimiter |-> delimiter,
     header_row |-> header_row,
     data_start_row |-> header_row + 1,
     headers_normalized |-> hn,
     header_signature |-> JoinChars(hn, "|"),
     confidence |-> ScoreCandidate(n_rows, header_row, hn)]

\* lines 952-957, 1008-1009: the columns stripped, then normalised
BuildCandidate(df, delimiter, header_row) ==
    CandidateOf([k \in 1..Len(df.columns) |->
                    CandidateNormalizeHeader(StrStrip(df.columns[k]))],
                df.n_rows, delimiter, header_row)

\* line 1129
CandidateKey(c) == <<c.header_signature, c.header_row, c.delimiter>>

\* lines 1123-1134: the candidate is rejected, skipped as seen, or appended
Surviving(cands, c) ==
    IF Cardinality(NamedHeaders(c.headers_normalized)) < 2 THEN cands
    ELSE IF \E k \in 1..Len(cands) : CandidateKey(cands[k]) = CandidateKey(c)
    THEN cands
    ELSE Append(cands, c)

\* list.sort(key=confidence, reverse=True) is stable: c goes after the entries
\* whose confidence is not smaller
InsertByConfidence(sorted, c) ==
    SelectSeq(sorted, LAMBDA x : x.confidence >= c.confidence)
    \o <<c>>
    \o SelectSeq(sorted, LAMBDA x : x.confidence < c.confidence)

RECURSIVE SortByConfidence(_, _)
SortByConfidence(cands, n) ==
    IF n = 0 THEN <<>>
    ELSE InsertByConfidence(SortByConfidence(cands, n - 1), cands[n])

\* lines 1139-1140
TopCandidates(cands) ==
    SubSeq(SortByConfidence(cands, Len(cands)), 1, Min(Len(cands), 5))

\* lines 1108-1110: the delimiters after the sniffed one, if any
FallbackDelimiters == <<";", ",", "\t", "|">>

\* lines 1102-1106: csv.Sniffer().sniff raises (no delimiter) or yields one of
\* the delimiters it is given; the model takes the first and the last of them
SniffOutcomes == {<<>>, <<";">>, <<"|">>}

\* lines 1115-1117: the pairs the two loops visit, in order
RECURSIVE PairsOf(_, _, _)
PairsOf(file_lines, delims, n) ==
    IF n = 0 THEN <<>>
    ELSE PairsOf(file_lines, delims, n - 1)
         \o [k \in 1..Len(CandidateHeaderRows(file_lines, delims[n])) |->
                [delimiter |-> delims[n],
                 header_row |-> CandidateHeaderRows(file_lines, delims[n])[k]]]

\* the data frames pandas.read_csv can hand back after _clean_df: the column
\* names and the number of rows (never 0: an empty frame raises)
DataFrames ==
    { [columns |-> <<Chars("Datum"), Chars("Text")>>, n_rows |-> 1],
      [columns |-> <<Chars("Unnamed: 0"), Chars("Datum")>>, n_rows |-> 3],
      [columns |-> <<Chars("Datum"), Chars("Valuta"), Chars("Text"),
                     Chars("Saldo"), Chars("Betrag"), Chars("Debit"),
                     Chars("Credit"), Chars("Amount"), Chars("Date"),
                     Chars("Konto"), Chars("Ref"), Chars("Nr")>>,
       n_rows |-> 25] }

\* lines 1093-1113: decode, split into lines, settle the delimiters to try
AnalyzeStart ==
    /\ an_pc = "start"
    /\ \E sniffed \in SniffOutcomes :
         /\ delimiters' = sniffed \o SelectSeq(FallbackDelimiters,
                                               LAMBDA d : d \notin Range(sniffed))
         /\ pairs' = PairsOf(lines, delimiters', Len(delimiters'))
    /\ an_pos' = 1
    /\ an_pc' = "parsing"
    /\ UNCHANGED <<lines, candidates, an_result, an_error>>
    /\ UNCHANGED <<hdrVars, mapVars, repVars, amtVars, svcVars>>

\* lines 1117-1134: one pass of the inner loop; _parse_csv_candidate raises or
\* yields a data frame
TryCandidate ==
    /\ an_pc = "parsing"
    /\ an_pos <= Len(pairs)
    /\ \/ UNCHANGED candidates
       \/ \E df \in DataFrames :
            candidates' = Surviving(candidates,
                                    BuildCandidate(df, pairs[an_pos].delimiter,
                                                   pairs[an_pos].header_row))
    /\ an_pos' = an_pos + 1
    /\ UNCHANGED <<an_pc, lines, delimiters, pairs, an_result, an_error>>
    /\ UNCHANGED <<hdrVars, mapVars, repVars, amtVars, svcVars>>

\* lines 1136-1140
AnalyzeFinish ==
    /\ an_pc = "parsing"
    /\ an_pos > Len(pairs)
    /\ IF candidates = <<>>
       THEN /\ an_pc' = "failed"
            /\ an_error' = "Could not detect a valid table in CSV"
            /\ UNCHANGED an_result
       ELSE /\ an_pc' = "returned"
            /\ an_result' = TopCandidates(candidates)
            /\ UNCHANGED an_error
    /\ UNCHANGED <<lines, delimiters, pairs, an_pos, candidates>>
    /\ UNCHANGED <<hdrVars, mapVars, repVars, amtVars, svcVars>>

AnNext == AnalyzeStart \/ TryCandidate \/ AnalyzeFinish

\* the lines the files of the model are made of
LineCatalog ==
    { Chars(" "), Chars("Kontoauszug"), Chars("Datum;Text,Betrag"),
      Chars("Datum;Text;Betrag;Saldo"), Chars("Avisierungstext") }

\* files of at most MaxLines lines, at most one of them naming Avisierungstext
LineTexts ==
    {f \in SeqsUpTo(LineCatalog, MaxLines) :
        Cardinality({k \in 1..Len(f) : f[k] = Chars("Avisierungstext")}) <= 1}

AnInit ==
    /\ an_pc = "start"
    /\ lines \in LineTexts
    /\ delimiters = <<>> /\ pairs = <<>> /\ an_pos = 0
    /\ candidates = <<>> /\ an_result = <<>> /\ an_error = ""
    /\ MapIdle /\ HdrIdle /\ RepIdle /\ AmtIdle /\ SvcIdle

\* analyzeCandidates on one CSV file
SpecAnalyze == AnInit /\ [][AnNext]_vars

(***************************************************************************)
(* C9: analyzeCandidates on a CSV either fails with a reported error or    *)
(* returns a non-empty list of at most 5 candidates ordered by             *)
(* non-increasing confidence, each confidence in [0, 0.99]; it never       *)
(* returns an empty list.                                                  *)
(***************************************************************************)
C9_CandidatesOrderedAndBounded ==
    /\ an_pc = "failed" => an_error # "" /\ an_result = <<>>
    /\ an_pc = "returned" =>
         /\ an_error = ""
         /\ an_result # <<>> /\ Len(an_result) <= 5
         /\ \A k \in 1..Len(an_result) :
              an_result[k].confidence >= 0 /\ an_result[k].confidence <= 99
         /\ \A k \in 1..(Len(an_result) - 1) :
              an_result[k].confidence >= an_result[k + 1].confidence
    /\ an_pc \notin {"failed", "returned"} => an_result = <<>>

\* six candidates survive, five are returned, from the capped score downwards
C9_Witness ==
    /\ an_pc = "returned"
    /\ Len(candidates) = 6 /\ Len(an_result) = 5
    /\ an_result[1].confidence = 99
    /\ an_result[5].confidence < 99
    /\ candidates[1].confidence < candidates[2].confidence


(***************************************************************************)
(* analyzeCandidates called twice on the same bytes.  csv.Sniffer and      *)
(* pandas.read_csv are functions of their arguments: what they answer on   *)
(* one file is fixed by rep_oracle, the same for both calls.               *)
(***************************************************************************)
\* _parse_csv_candidate raises
ParseRaises == [ok |-> FALSE, df |-> [columns |-> <<>>, n_rows |-> 0]]

\* the frame read with a delimiter the text does not hold: one column
OneColumnFrame ==
    [ok |-> TRUE, df |-> [columns |-> <<Chars("Avisierungstext")>>, n_rows |-> 1]]

ParseResults == {ParseRaises} \cup {[ok |-> TRUE, df |-> df] : df \in DataFrames}

\* the delimiters that occur in the lines of the model
TextDelimiters == {";", ","}

Oracles == [sniffed : SniffOutcomes, frames : [TextDelimiters -> ParseResults]]

\* line 1119: what _parse_csv_candidate gives for a pair
ParseResultFor(oracle, pair) ==
    IF pair.delimiter \in TextDelimiters THEN oracle.frames[pair.delimiter]
    ELSE OneColumnFrame

\* lines 1123-1134, with the local seen_keys kept apart from candidates
KeepCandidate(st, c) ==
    IF Cardinality(NamedHeaders(c.headers_normalized)) < 2 THEN st
    ELSE IF CandidateKey(c) \in st.seen THEN st
    ELSE [cands |-> Append(st.cands, c), seen |-> st.seen \cup {CandidateKey(c)}]

\* lines 1117-1134: one pass of the inner loop
LoopPass(st, r, pair) ==
    IF ~r.ok THEN st
    ELSE KeepCandidate(st, BuildCandidate(r.df, pair.delimiter, pair.header_row))

\* lines 1115-1134: the two loops over the first n pairs
RECURSIVE LoopsOver(_, _, _, _)
LoopsOver(prs, oracle, n, st) ==
    IF n = 0 THEN st
    ELSE LoopPass(LoopsOver(prs, oracle, n - 1, st),
                  ParseResultFor(oracle, prs[n]), prs[n])

\* a plausible slip: seen_keys lives on between the calls
FreshSeenKeys_Kept(previous) == previous

\* line 1113: seen_keys = set(), a local of the call
FreshSeenKeys(previous) == {}

\* lines 1108-1110
DelimitersAfter(sniffed) ==
    sniffed \o SelectSeq(FallbackDelimiters, LAMBDA d : d \notin Range(sniffed))

\* lines 1136-1140, given the state the loops end in
FinishCall(st) ==
    /\ candidates' = st.cands
    /\ seen_keys' = st.seen
    /\ an_pc' = IF st.cands = <<>> THEN "failed" ELSE "returned"
    /\ an_error' = IF st.cands = <<>>
                   THEN "Could not detect a valid table in CSV" ELSE ""
    /\ an_result' = IF st.cands = <<>> THEN <<>> ELSE TopCandidates(st.cands)

\* lines 1093-1140: one whole call of _analyze_csv_candidates
AnalyzeCall ==
    /\ rep_calls < 2
    /\ an_pc \in {"start", "failed", "returned"}
    /\ delimiters' = DelimitersAfter(rep_oracle.sniffed)
    /\ pairs' = PairsOf(lines, delimiters', Len(delimiters'))
    /\ an_pos' = Len(pairs') + 1
    /\ FinishCall(LoopsOver(pairs', rep_oracle, Len(pairs'),
                            [cands |-> <<>>, seen |-> FreshSeenKeys(seen_keys)]))
    /\ rep_calls' = rep_calls + 1
    /\ rep_first' = IF rep_calls = 0
                    THEN [error |-> an_error', result |-> an_result']
                    ELSE rep_first
    /\ UNCHANGED <<lines, rep_oracle>>
    /\ UNCHANGED <<hdrVars, mapVars, amtVars, svcVars>>

RepNext == AnalyzeCall

RepInit ==
    /\ an_pc = "start"
    /\ lines \in LineTexts
    /\ delimiters = <<>> /\ pairs = <<>> /\ an_pos = 0
    /\ candidates = <<>> /\ an_result = <<>> /\ an_error = ""
    /\ rep_calls = 0 /\ rep_oracle \in Oracles
    /\ rep_first = <<>> /\ seen_keys = {}
    /\ MapIdle /\ HdrIdle /\ AmtIdle /\ SvcIdle

\* analyzeCandidates twice on one file
SpecRepeat == RepInit /\ [][RepNext]_vars

HeaderAmounts ==
    <<"Summe", "Betrag", "Einzelbetrag", "Betrag Detail", "Saldo", "Total">>
\* a statement with a debit and a credit column, a detail amount and a balance
HeaderSollHaben == <<"Soll", "Haben", "Betrag Detail", "Saldo">>

NumberCells == {"", "0.00", "1.00", "-2.00"}
MappedCells == {"", "n/a", "0.00", "1.00", "-1.00", "2.00"}
BalanceCells == {"", "2.00"}
ParentSigns == {0, -1, 1}

AmtInitSigned ==
    \E summe \in NumberCells, betrag \in MappedCells, einzel \in NumberCells,
       detail \in NumberCells, saldo \in BalanceCells, total \in NumberCells :
        /\ amt_hn = HeadersNorm(HeaderAmounts)
        /\ amt_cells = RowDict(amt_hn,
                                <<summe, betrag, einzel, detail, saldo, total>>)
        /\ amt_tpl = TemplateFor("signed", 1, 2, TRUE, 0)

AmtInitDebitCredit ==
    \E soll \in MappedCells, haben \in MappedCells, detail \in NumberCells,
       saldo \in BalanceCells :
        /\ amt_hn = HeadersNorm(HeaderSollHaben)
        /\ amt_cells = RowDict(amt_hn, <<soll, haben, detail, saldo>>)
        /\ amt_tpl = TemplateFor("debit_credit", 1, 2, TRUE, 0)

AmtInit ==
    /\ amt_pc = "input"
    /\ AmtInitSigned \/ AmtInitDebitCredit
    /\ amt_sign \in ParentSigns
    /\ amt_res = <<>>
    /\ MapIdle /\ HdrIdle /\ AnIdle /\ RepIdle /\ SvcIdle

\* lines 285-312: primary resolution, from the mapped column(s)
ResolvePrimary ==
    /\ amt_pc = "input"
    /\ amt_res' = AmountResult(PrimaryAmount(amt_cells, amt_tpl), SourceMapped)
    /\ amt_pc' = "primary"
    /\ UNCHANGED <<amt_hn, amt_cells, amt_tpl, amt_sign>>
    /\ UNCHANGED <<hdrVars, mapVars, anVars, repVars, svcVars>>

\* lines 314-330: the fallback search, when it applies, and the return
FallbackAndReturn ==
    /\ amt_pc = "primary"
    /\ amt_res' = ResolveAmount(amt_res.signed,
                                FirstFallback(amt_cells, FindAmountFallback(amt_hn)),
                                amt_sign)
    /\ amt_pc' = "done"
    /\ UNCHANGED <<amt_hn, amt_cells, amt_tpl, amt_sign>>
    /\ UNCHANGED <<hdrVars, mapVars, anVars, repVars, svcVars>>

AmtNext == ResolvePrimary \/ FallbackAndReturn

SpecAmount == AmtInit /\ [][AmtNext]_vars

\* the mapped amount of the row and the cell of column h as a number
AmtPrimary == PrimaryAmount(amt_cells, amt_tpl)
AmtCell(h) == ParseNumber(SafeGet(amt_cells, h))
PrimaryNonZero == AmtPrimary.some /\ AmtPrimary.v # 0

(***************************************************************************)
(* C16: the fallback search runs only when the primary resolution is null  *)
(* or zero: whenever the primary resolution yields a non-zero amount, the  *)
(* result's signed amount is that value exactly, its source is "mapped"    *)
(* (no other column was consulted), and a supplied parent_sign does not    *)
(* change its sign.                                                        *)
(***************************************************************************)
C16_NonZeroPrimaryIsFinal ==
    amt_pc = "done" =>
        /\ PrimaryNonZero =>
              /\ amt_res.signed = AmtPrimary
              /\ amt_res.source = SourceMapped
        /\ amt_res.source # SourceMapped => ~PrimaryNonZero

\* a non-zero mapped amount beside a non-zero detail amount, resolved with the
\* parent_sign opposite to its sign
C16_Witness ==
    /\ amt_pc = "done"
    /\ PrimaryNonZero
    /\ amt_sign = -Sign(AmtPrimary.v)
    /\ AmtCell(KwBetragDetail).some /\ AmtCell(KwBetragDetail).v # 0
    /\ amt_res.signed = AmtPrimary

(***************************************************************************)
(* C17: when the fallback search finds a value v and parent_sign is s in   *)
(* {-1, 1}, the resulting amount is |v| * s: the sign is s, the magnitude  *)
(* that of the value found.  Without parent_sign the result is v, with the *)
(* sign found in the cell.  The direction follows the resulting sign.      *)
(***************************************************************************)
\* the result came from the fallback column h
FromFallback(h) == amt_res.source = SourceFallback(h)

C17_FallbackTakesParentSign ==
    (amt_pc = "done" /\ amt_res.source # SourceMapped) =>
        \E h \in Range(amt_hn) :
            /\ FromFallback(h)
            /\ AmtCell(h).some /\ AmtCell(h).v # 0
            /\ amt_res.signed.some
            /\ IF amt_sign \in {-1, 1}
               THEN /\ Sign(amt_res.signed.v) = amt_sign
                    /\ Abs(amt_res.signed.v) = Abs(AmtCell(h).v)
               ELSE amt_res.signed.v = AmtCell(h).v
            /\ amt_res.direction = IF amt_res.signed.v > 0 THEN "CRDT" ELSE "DBIT"

\* a negative fallback value resolved under parent_sign 1
C17_Witness ==
    /\ amt_pc = "done"
    /\ amt_sign = 1
    /\ \E h \in Range(amt_hn) : FromFallback(h) /\ AmtCell(h).v < 0
    /\ amt_res.signed.v > 0

(***************************************************************************)
(* C18: the fallback value is taken from the first amount-like header, in  *)
(* the order detail amount, single amount, generic betrag/amount, every    *)
(* other amount-like header (header order among equals), whose cell parses *)
(* to a non-zero number: no column of higher priority with a non-zero      *)
(* value is passed over, and a column that is not amount-like is never     *)
(* used.                                                                   *)
(***************************************************************************)
AmountLike(h) == \E k \in AmountKeywords : Contains(h, k)
PriorityClass(h) ==
    CASE Contains(h, <<"b","e","t","r","a","g","_","d","e","t","a","i","l">>) -> 1
      [] Contains(h, <<"e","i","n","z","e","l","b","e","t","r","a","g">>)
         /\ ~Contains(h, <<"b","e","t","r","a","g","_","d","e","t","a","i","l">>) -> 2
      [] h \in {<<"b","e","t","r","a","g">>, <<"a","m","o","u","n","t">>} -> 3
      [] OTHER -> 4
PositionOf(h) == CHOOSE k \in 1..Len(amt_hn) : amt_hn[k] = h
ComesBefore(h, g) ==
    \/ PriorityClass(h) < PriorityClass(g)
    \/ PriorityClass(h) = PriorityClass(g) /\ PositionOf(h) < PositionOf(g)
\* the amount-like headers whose cell parses to a non-zero number
UsableFallbacks ==
    {h \in Range(amt_hn) : AmountLike(h) /\ AmtCell(h).some /\ AmtCell(h).v # 0}

DebitCell == AmtCell(amt_tpl.debit_col)
CreditCell == AmtCell(amt_tpl.credit_col)

C19_DebitCreditPrimary ==
    (amt_pc = "primary" /\ amt_tpl.mode = "debit_credit") =>
        /\ (DebitCell.some /\ CreditCell.some) =>
              amt_res.signed = Some(CreditCell.v - DebitCell.v)
        /\ (~DebitCell.some /\ CreditCell.some) => amt_res.signed = CreditCell
        /\ (DebitCell.some /\ ~CreditCell.some) =>
              /\ amt_res.signed.some
              /\ amt_res.signed.v = IF DebitCell.v < 0 THEN DebitCell.v
                                     ELSE -DebitCell.v
              /\ amt_res.signed.v <= 0
        /\ (~DebitCell.some /\ ~CreditCell.some) => amt_res.signed = None

\* a debit-only row whose debit cell is negative already
C19_Witness ==
    /\ amt_pc = "primary" /\ amt_tpl.mode = "debit_credit"
    /\ DebitCell.some /\ DebitCell.v < 0
    /\ ~CreditCell.some
    /\ amt_res.signed = DebitCell

(***************************************************************************)
Amt(t) == IF t.amount_signed.some THEN t.amount_signed.v ELSE 0
Indices(s) == 1..Len(s)
Expanding == pc \in {"resolving", "done"} /\ template.explode

\* the dated rows of the extracted table that have at least one child, and whose
\* text and amount make them group parents
GroupParents ==
    {i \in Indices(extracted) :
        /\ IsDated(extracted[i], template.date_col)
        /\ ChildrenOf(extracted, i, template.date_col) # <<>>
        /\ IsGroupParent(ComposeText(extracted[i].cells, template.text_cols))
        /\ LET a == ComputeSignedAmount(extracted[i].cells, headers_norm,
                                        template, 0).signed
           IN  a.some /\ a.v # 0}

ParentAmt(i) ==
    ComputeSignedAmount(extracted[i].cells, headers_norm, template, 0).signed.v
ParentDate(i) == SafeGet(extracted[i].cells, template.date_col)
Kids(i) == ChildrenOf(extracted, i, template.date_col)
KidSrcs(i) == {Kids(i)[k].src : k \in Indices(Kids(i))}
\* the children's non-zero amounts as the expander resolves them
KidAmounts(i) ==
    ChildAmounts(Kids(i), headers_norm, template, ParentDate(i), Sign(ParentAmt(i)))
SumWithinTol(i) == Abs(SumSeq(KidAmounts(i)) - ParentAmt(i)) <= Tol
\* row c with the date cell holding d
WithDate(c, d) == [c EXCEPT !.cells = [@ EXCEPT ![template.date_col] = d]]
\* the children of group i, each with the parent's date
DatedKids(i) == [k \in Indices(Kids(i)) |-> WithDate(Kids(i)[k], ParentDate(i))]
OutputOf(srcs) == SelectSeq(parsed_rows, LAMBDA r : r.src \in srcs)
TxOf(srcs) == SelectSeq(transactions, LAMBDA t : t.raw.src \in srcs)

(***************************************************************************)
(* C1: for every transaction applyMapping produces, direction is "CRDT"    *)
(* iff amount_signed > 0, "DBIT" iff amount_signed < 0, and null iff       *)
(* amount_signed is null or zero, in either amount mode and whether the    *)
(* amount came from the mapped column or from the fallback search.         *)
(***************************************************************************)
C1_DirectionFollowsSign ==
    \A k \in Indices(transactions) :
        LET t == transactions[k]
        IN  /\ t.direction = "CRDT" <=> (t.amount_signed.some /\ t.amount_signed.v > 0)
            /\ t.direction = "DBIT" <=> (t.amount_signed.some /\ t.amount_signed.v < 0)
            /\ t.direction = "null" <=> (~t.amount_signed.some \/ t.amount_signed.v = 0)

\* a debit transaction in debit_credit mode whose amount came from the fallback
\* search
C1_Witness ==
    /\ pc = "done"
    /\ template.mode = "debit_credit"
    /\ \E k \in Indices(transactions) :
         /\ transactions[k].direction = "DBIT"
         /\ ~PrimaryAmount(transactions[k].raw.cells, template).some

(***************************************************************************)
(* C2: with max_parse_errors_before_fail = 0, every row handed to per-row  *)
(* field resolution ends in exactly one output: a row with an issue is     *)
(* once in errors[] with its raw cells and not in transactions[], a row    *)
(* without issue is once in transactions[]; rows_ok + rows_error is the    *)
(* number of rows processed.                                               *)
(***************************************************************************)
RowHasIssue(r) ==
    \/ ParseDateToIso(SafeGet(r.cells, template.date_col), template.date_formats)
         = "null"
    \/ ComposeText(r.cells, template.text_cols) = ""
    \/ ~ComputeSignedAmount(r.cells, headers_norm, template, 0).signed.some

C3_ChildrenCarryParentSign ==
    (pc = "done" /\ template.explode) =>
        \A i \in GroupParents :
            (KidAmounts(i) # <<>> /\ SumWithinTol(i)) =>
                LET txs == TxOf(KidSrcs(i))
                IN  /\ \A k \in Indices(txs) :
                         Amt(txs[k]) # 0 => Sign(Amt(txs[k])) = Sign(ParentAmt(i))
                    /\ Len(txs) = Len(Kids(i)) =>
                         Abs(SumSeq([k \in Indices(txs) |-> Amt(txs[k])])
                             - ParentAmt(i)) <= Tol

(***************************************************************************)
(* C4 (as stated): when a dated parent row qualifies as a group parent and *)
(* the sum of its children's non-zero amounts equals the parent amount     *)
(* within 0.02, the output holds the children in their order in place of   *)
(* the parent, each with the parent's date, the parent is absent, and      *)
(* scanning resumes at the next dated row.                                 *)
(***************************************************************************)
\* the rows of the output keep the order of the file
OutputInFileOrder ==
    \A a, b \in Indices(parsed_rows) :
        a < b => parsed_rows[a].src < parsed_rows[b].src

\* the next dated row after group i is scanned as a dated row of its own: it is
\* in the output, or replaced by its own children carrying its date
ResumesAfter(i) ==
    LET j == NextDated(extracted, i + 1, template.date_col)
    IN  j <= Len(extracted) =>
            \/ \E r \in Range(parsed_rows) : r = extracted[j]
            \/ /\ Kids(j) # <<>>
               /\ OutputOf(KidSrcs(j)) = DatedKids(j)

ReplacedByChildren(i) ==
    /\ \A r \in Range(parsed_rows) : r.src # extracted[i].src
    /\ OutputOf(KidSrcs(i)) = DatedKids(i)
    /\ OutputInFileOrder
    /\ ResumesAfter(i)

C4_ExpandsWhenSumMatches ==
    Expanding => \A i \in GroupParents : SumWithinTol(i) => ReplacedByChildren(i)

(***************************************************************************)
(* C4 (amended): as C4, for groups in which at least one child resolves to *)
(* a non-zero amount.                                                      *)
(***************************************************************************)
C4_ExpandsWhenChildAmountsMatch ==
    Expanding =>
        \A i \in GroupParents :
            (KidAmounts(i) # <<>> /\ SumWithinTol(i)) => ReplacedByChildren(i)

\* a parent replaced by a child whose date cell held another text, and a dated
\* row after the group
C4_Witness ==
    /\ Expanding
    /\ \E i \in GroupParents :
         /\ KidAmounts(i) # <<>> /\ SumWithinTol(i)
         /\ \E k \in Indices(Kids(i)) :
              SafeGet(Kids(i)[k].cells, template.date_col) # ParentDate(i)
         /\ NextDated(extracted, i + 1, template.date_col) <= Len(extracted)
         /\ Len(parsed_rows) = Len(extracted) - 1

(***************************************************************************)
(* C5 (as stated): when the children's sum differs from the parent amount  *)
(* by more than 0.02, the parent row is kept and the children are emitted  *)
(* on their own, unchanged: without the parent's date, amounts not forced. *)
(***************************************************************************)
KeptInOutput(r) == OutputOf({r.src}) = <<r>>

C5_RejectedGroupUnchanged ==
    Expanding =>
        \A i \in GroupParents :
            ~SumWithinTol(i) =>
                /\ KeptInOutput(extracted[i])
                /\ \A k \in Indices(Kids(i)) : KeptInOutput(Kids(i)[k])

(***************************************************************************)
(* C5 (amended): when the children's sum differs from the parent amount by *)
(* more than 0.02, the parent row is kept unchanged and every child is     *)
(* emitted once, in order, with its cells unchanged except the date cell:  *)
(* the post-pass writes the parent's date into a child whose date cell is  *)
(* empty, a child with a non-empty date cell keeps it.                     *)
(***************************************************************************)
C5_RejectedGroupKeepsAmounts ==
    Expanding =>
        \A i \in GroupParents :
            ~SumWithinTol(i) =>
                /\ KeptInOutput(extracted[i])
                /\ OutputInFileOrder
                /\ \A k \in Indices(Kids(i)) :
                     LET c == Kids(i)[k]
                     IN  OutputOf({c.src}) =
                           << IF SafeGet(c.cells, template.date_col) = ""
                              THEN WithDate(c, ParentDate(i))
                              ELSE c >>

\* a rejected group with a child that has an amount and an empty date cell and a
\* child with a non-empty date cell
C5_Witness ==
    /\ Expanding
    /\ \E i \in GroupParents :
         /\ ~SumWithinTol(i)
         /\ KidAmounts(i) # <<>>
         /\ \E k \in Indices(Kids(i)) : SafeGet(Kids(i)[k].cells, template.date_col) = ""
         /\ \E k \in Indices(Kids(i)) : SafeGet(Kids(i)[k].cells, template.date_col) # ""

(***************************************************************************)
(* C6: buildDraftPosting yields amount = |amount_signed| (0 for null),     *)
(* never negative; positive -> debit_account is the bank account and       *)
(* credit_account empty; negative -> credit_account is the bank account    *)
(* and debit_account empty; zero or null -> both empty.  The bank account  *)
(* is never on both sides.                                                 *)
(***************************************************************************)
C6_PostingDerivation ==
    bank_account_gl # "" =>
        /\ Len(postings_draft) = Len(transactions)
        /\ \A k \in Indices(postings_draft) :
             LET p == postings_draft[k]
                 a == Amt(transactions[k])
             IN  /\ p.amount = Abs(a) /\ p.amount >= 0
                 /\ a > 0 => p.debit_account = bank_account_gl /\ p.credit_account = ""
                 /\ a < 0 => p.credit_account = bank_account_gl /\ p.debit_account = ""
                 /\ a = 0 => p.debit_account = "" /\ p.credit_account = ""
                 /\ ~(p.debit_account = bank_account_gl
                      /\ p.credit_account = bank_account_gl)

\* a posting of a negative amount
C6_Witness ==
    /\ pc = "done" /\ bank_account_gl # ""
    /\ \E k \in Indices(postings_draft) :
         /\ transactions[k].amount_signed = Some(-200)
         /\ postings_draft[k].amount = 200
         /\ postings_draft[k].credit_account = bank_account_gl

(***************************************************************************)
(* C7: when the template's header row lies beyond the last row of the      *)
(* file, applyMapping ends with one top-level failure and processes        *)
(* nothing: no transaction, no draft posting, no per-row result.           *)
(***************************************************************************)
C7_HeaderOutOfRangeAborts ==
    template.header_row > Len(all_rows) =>
        /\ pc \in {"start", "done"}
        /\ transactions = <<>> /\ postings_draft = <<>>
        /\ extracted = <<>> /\ parsed_rows = <<>>
        /\ pc = "done" =>
             /\ Len(errors) = 1
             /\ errors[1].row_index = 0
             /\ errors[1].issues = <<"header_out_of_range">>
             /\ result = [rows_ok |-> 0, rows_error |-> 1]

\* a file of one preamble line under a template whose header row is 2
C7_Witness ==
    /\ pc = "done"
    /\ all_rows # <<>>
    /\ template.header_row > Len(all_rows)

(***************************************************************************)
(* C8: the row_index of every transaction and every error entry is the     *)
(* 1-based position of its source row in the original file, also after     *)
(* blank rows were skipped or a compound group was expanded before it.     *)
(***************************************************************************)
C8_RowIndexIsFilePosition ==
    /\ \A k \in Indices(transactions) :
         transactions[k].row_index = transactions[k].raw.src
    /\ \A k \in Indices(errors) :
         errors[k].issues # <<"header_out_of_range">> =>
             errors[k].row_index = errors[k].raw.src

\* both header normalisers on one header text
SpecHeader == HdrInit /\ [][HdrNext]_vars

(***************************************************************************)
(* C10: header normalisation is idempotent, for the Row Extractor's        *)
(* normaliser and for the one that builds a Candidate's                    *)
(* headers_normalized: normalising a normalised header changes nothing.    *)
(***************************************************************************)
C10_HeaderNormalizationIdempotent ==
    /\ hdr_pc \in {"extractor_done", "done"} => hdr_twice = hdr_once
    /\ hdr_pc = "done" => cand_twice = cand_once

(***************************************************************************)
(* C11: a row's status is "error" iff at least one issue was recorded for  *)
(* it and "ok" otherwise; with max_parse_errors_before_fail = 0 every      *)
(* transaction in transactions[] has status "ok" and no issue, and every   *)
(* entry of errors[] has at least one issue.                               *)
(***************************************************************************)
C11_StatusFollowsIssues ==
    /\ \A k \in Indices(transactions) :
         /\ transactions[k].status \in {"ok", "error"}
         /\ transactions[k].status = "error" <=> transactions[k].issues # <<>>
         /\ template.max_fail = 0 =>
              transactions[k].status = "ok" /\ transactions[k].issues = <<>>
    /\ \A k \in Indices(errors) : errors[k].issues # <<>>

\* under a non-zero threshold a row with two issues is kept as a transaction of
\* status "error"
C11_Witness ==
    /\ pc = "done" /\ template.max_fail # 0
    /\ \E k \in Indices(transactions) :
         /\ transactions[k].status = "error"
         /\ Len(transactions[k].issues) >= 2

(***************************************************************************)
(* C13 (as stated): a dated row's group is expanded iff at least one       *)
(* non-blank undated row follows it before the next dated row, the         *)
(* parent's composed text matches the group-parent pattern, the parent     *)
(* amount is non-null and non-zero, and the sum of the non-zero child      *)
(* amounts equals the parent amount within 0.02, the empty sum included.   *)
(***************************************************************************)
DatedRows == {i \in Indices(extracted) : IsDated(extracted[i], template.date_col)}
\* the group of dated row i is expanded: its children stand in its place
Expanded(i) ==
    /\ \A r \in Range(parsed_rows) : r.src # extracted[i].src
    /\ OutputOf(KidSrcs(i)) = DatedKids(i)

C13_ExpandedIffSumMatches ==
    Expanding =>
        \A i \in DatedRows :
            Expanded(i) <=> (i \in GroupParents /\ SumWithinTol(i))

(***************************************************************************)
(* C13 (amended): a dated row's group is expanded iff it has a child, the  *)
(* parent's text matches the group-parent pattern, the parent amount is    *)
(* non-null and non-zero, at least one child has a non-zero amount, and    *)
(* the sum of the non-zero child amounts is within 0.02 of the parent      *)
(* amount.  A dated row that is not expanded is in the output.             *)
(***************************************************************************)
C13_ExpandedIffChildAmountsMatch ==
    Expanding =>
        \A i \in DatedRows :
            /\ Expanded(i) <=>
                  (i \in GroupParents /\ KidAmounts(i) # <<>> /\ SumWithinTol(i))
            /\ ~Expanded(i) => KeptInOutput(extracted[i])

\* an expanded group with a child that has an amount and a child that has none
C13_Witness ==
    /\ Expanding
    /\ \E i \in DatedRows :
         /\ Expanded(i)
         /\ KidAmounts(i) # <<>>
         /\ Len(KidAmounts(i)) < Len(Kids(i))

(***************************************************************************)
(* C14: the parent amount the expander qualifies and reconciles a group    *)
(* with is the result of primary resolution only (the mapped column or the *)
(* debit/credit columns); the fallback search is never applied to the      *)
(* parent row.  So a group is expanded only when the parent's mapped       *)
(* amount is non-null and non-zero and the children's non-zero amounts,    *)
(* forced to its sign, sum to it within 0.02.                              *)
(***************************************************************************)
PrimaryOfParent(i) == PrimaryAmount(extracted[i].cells, template)

C14_ParentAmountIsPrimaryOnly ==
    Expanding =>
        \A i \in DatedRows :
            Expanded(i) =>
                /\ PrimaryOfParent(i).some /\ PrimaryOfParent(i).v # 0
                /\ Abs(SumSeq(ChildAmounts(Kids(i), headers_norm, template,
                                           ParentDate(i),
                                           Sign(PrimaryOfParent(i).v)))
                       - PrimaryOfParent(i).v) <= Tol

(***************************************************************************)
(* C15 (as stated): after the post-pass every output row that comes after  *)
(* at least one dated row and lacks a valid date carries the last valid    *)
(* date seen before it in the output; a row whose date cell is a valid     *)
(* date is left unchanged.                                                 *)
(***************************************************************************)
\* the row of the extracted table that output row k was made from
OriginOf(k) ==
    CHOOSE r \in Range(extracted) : r.src = parsed_rows[k].src
\* the date of the last dated row of the output before position k, "" if none
LastDateBefore(k) ==
    LET dated == {j \in 1..(k - 1) : IsDated(parsed_rows[j], template.date_col)}
    IN  IF dated = {} THEN ""
        ELSE SafeGet(parsed_rows[CHOOSE j \in dated : \A m \in dated : m <= j].cells,
                     template.date_col)
\* output row k is a child of an expanded group, standing for its parent
ChildOfExpanded(k) ==
    \E i \in DatedRows : Expanded(i) /\ parsed_rows[k].src \in KidSrcs(i)
ParentDateOf(k) ==
    ParentDate(CHOOSE i \in DatedRows : parsed_rows[k].src \in KidSrcs(i))

C15_UndatedRowsCarryLastDate ==
    Expanding =>
        \A k \in Indices(parsed_rows) :
            IF IsDated(OriginOf(k), template.date_col)
            THEN parsed_rows[k] = OriginOf(k)
            ELSE LastDateBefore(k) # "" =>
                     parsed_rows[k] = WithDate(OriginOf(k), LastDateBefore(k))

(***************************************************************************)
(* C15 (amended): after the post-pass every output row that comes after at *)
(* least one dated row and whose date cell is empty carries the last valid *)
(* date seen before it in the output.  A row whose date cell is a valid    *)
(* date is unchanged, and so is a row whose date cell holds a text that is *)
(* not a date, and a row with an empty date cell before the first dated    *)
(* row.  (The children of an expanded group carry their parent's date.)    *)
(***************************************************************************)
C15_EmptyDateCellsCarryLastDate ==
    Expanding =>
        \A k \in Indices(parsed_rows) :
            LET o == OriginOf(k)
                dd == SafeGet(o.cells, template.date_col)
            IN  IF IsDated(o, template.date_col) THEN parsed_rows[k] = o
                ELSE IF ChildOfExpanded(k)
                THEN parsed_rows[k] = WithDate(o, ParentDateOf(k))
                ELSE IF dd = "" /\ LastDateBefore(k) # ""
                THEN parsed_rows[k] = WithDate(o, LastDateBefore(k))
                ELSE parsed_rows[k] = o

\* after a dated row, a row whose date cell is not a date keeps it and a row
\* with an empty date cell is given the date
C15_Witness ==
    /\ Expanding
    /\ \E k, n \in Indices(parsed_rows) :
         /\ LastDateBefore(k) # "" /\ ~ChildOfExpanded(k)
         /\ SafeGet(parsed_rows[k].cells, template.date_col) = "n/a"
         /\ k < n /\ ~ChildOfExpanded(n)
         /\ SafeGet(OriginOf(n).cells, template.date_col) = ""
         /\ SafeGet(parsed_rows[n].cells, template.date_col) = LastDateBefore(k)

(***************************************************************************)
(* C20: for each processed row the recorded issues are exactly these:      *)
(* invalid_date iff the booking date cell does not parse, missing_text iff *)
(* the composed text is empty, missing_amount iff the final signed amount  *)
(* (after fallback) is null; a zero amount records no issue.  A valuta     *)
(* date that does not parse records no issue and leaves valuta_date null.  *)
(***************************************************************************)
ExpectedIssues(r) ==
    {c \in {"invalid_date", "missing_text", "missing_amount"} :
        \/ /\ c = "invalid_date"
           /\ ParseDateToIso(SafeGet(r.cells, template.date_col),
                             template.date_formats) = "null"
        \/ c = "missing_text" /\ ComposeText(r.cells, template.text_cols) = ""
        \/ /\ c = "missing_amount"
           /\ ~ComputeSignedAmount(r.cells, headers_norm, template, 0).signed.some}
IssuesAre(issues, r) ==
    /\ Range(issues) = ExpectedIssues(r)
    /\ Len(issues) = Cardinality(ExpectedIssues(r))
ValutaFails(r) ==
    ParseDateToIso(SafeGet(r.cells, template.valuta_col), template.date_formats)
        = "null"

C20_IssuesAreExact ==
    template.header_row <= Len(all_rows) =>
        /\ \A k \in Indices(transactions) :
             LET t == transactions[k]
             IN  /\ IssuesAre(t.issues, t.raw)
                 /\ t.amount_signed = Some(0) => "missing_amount" \notin Range(t.issues)
                 /\ (template.valuta_col = NoCol \/ ValutaFails(t.raw)) =>
                        t.valuta_date = "null"
        /\ \A k \in Indices(errors) : IssuesAre(errors[k].issues, errors[k].raw)

\* a row with a zero amount and a value date cell that is no date, emitted
\* without issue and without value date
C20_Witness ==
    /\ pc = "done"
    /\ template.valuta_col = ColValuta
    /\ \E k \in Indices(transactions) :
         /\ transactions[k].amount_signed = Some(0)
         /\ transactions[k].issues = <<>>
         /\ SafeGet(transactions[k].raw.cells, ColValuta) = "n/a"
         /\ transactions[k].valuta_date = "null"

(***************************************************************************)
(* C21: parseDateToIso returns null or a valid calendar date in yyyy-mm-dd *)
(* form: booking_date and valuta_date of a transaction are always a real   *)
(* ISO date or null, and a row with an impossible date gets invalid_date.  *)
(***************************************************************************)
\* the texts of the model that are real calendar dates in ISO form
CalendarDates == {"2024-01-05", "2024-01-09"}
\* the date cells of the model that name no day of the calendar
ImpossibleDates == {"2024-13-45", "31.02.2024"}

C21_DatesAreCalendarDates ==
    /\ \A k \in Indices(transactions) :
         /\ transactions[k].booking_date \in CalendarDates \cup {"null"}
         /\ transactions[k].valuta_date \in CalendarDates \cup {"null"}
         /\ SafeGet(transactions[k].raw.cells, template.date_col) \in ImpossibleDates
              => "invalid_date" \in Range(transactions[k].issues)

(***************************************************************************)
(* C22: every row the extractor builds has exactly one entry per header    *)
(* column, each header mapped to the cell at the same position of the      *)
(* file's row (a short row padded with empty strings, a long row cut to    *)
(* the header length): no column's cell is lost or overwritten by another  *)
(* column's.  Rows whose cells are all blank are skipped.                  *)
(***************************************************************************)
\* the cell at position k of the file's row, "" beyond its end
CellAt(row, k) == IF k <= Len(row) THEN row[k] ELSE ""

C22_OneEntryPerHeaderColumn ==
    pc \in {"extracted", "resolving", "done"} /\ template.header_row <= Len(all_rows) =>
        /\ \A i \in Indices(extracted) :
             /\ Cardinality(DOMAIN extracted[i].cells) = Len(headers_norm)
             /\ \A k \in Indices(headers_norm) :
                  extracted[i].cells[headers_norm[k]]
                      = CellAt(all_rows[extracted[i].src], k)
        /\ \A n \in (DataIndex(template) + 1)..Len(all_rows) :
             RawRowBlank(all_rows[n]) <=>
                 ~\E i \in Indices(extracted) : extracted[i].src = n

(***************************************************************************)
(* C23: the expander runs only when explode_compound_rows is enabled.      *)
(* With the flag false the rows given to per-row field resolution are the  *)
(* extracted rows in their order: no parent is replaced, no child is       *)
(* re-dated, no date is carried forward, and every transaction and error   *)
(* carries an extracted row as it was.                                     *)
(***************************************************************************)
C23_NoExpansionWhenDisabled ==
    (/\ pc \in {"resolving", "done"} /\ ~template.explode
     /\ ~HeaderOutOfRange(all_rows, template)) =>
        /\ parsed_rows = extracted
        /\ \A k \in Indices(transactions) :
             \E i \in Indices(extracted) :
                 /\ transactions[k].raw = extracted[i]
                 /\ transactions[k].row_index = template.data_start_row + i - 1
        /\ \A k \in Indices(errors) :
             \E i \in Indices(extracted) : errors[k].raw = extracted[i]

\* with the flag off, a group that reconciles stays as it is and its children
\* keep their empty date cells
C23_Witness ==
    /\ pc = "done" /\ ~template.explode
    /\ \E i \in GroupParents :
         /\ KidAmounts(i) # <<>> /\ SumWithinTol(i)
         /\ KeptInOutput(extracted[i])
         /\ \A k \in Indices(Kids(i)) :
              /\ SafeGet(Kids(i)[k].cells, template.date_col) = ""
              /\ KeptInOutput(Kids(i)[k])
    /\ errors # <<>>

(***************************************************************************)
(* C24: header normalisation is a stable join key across components: for   *)
(* every header text, the name a Candidate reports in headers_normalized   *)
(* is the key under which the Row Extractor stores that column.            *)
(***************************************************************************)
C24_SameKeyInBothComponents ==
    hdr_pc = "done" => cand_once = hdr_once

(***************************************************************************)
(* C25: the expander's pass ends on every row list and conserves rows.     *)
(* The scan moves forward from every dated row; the input rows are not     *)
(* changed; every output row is an input row, the same but for its date    *)
(* cell, and stands once, in input order; an input row is missing from the *)
(* output only if it is the parent of a reconciled group, whose non-blank  *)
(* children all stand in the output, or a blank row inside such a group.   *)
(***************************************************************************)
\* the input row i is in the output, once
InOutputOnce(i) ==
    Cardinality({k \in Indices(parsed_rows) : parsed_rows[k].src = extracted[i].src}) = 1
\* row i is a blank row between the parent p of a reconciled group and the
\* next dated row
BlankInsideGroup(i, p) ==
    /\ p < i /\ i < NextDated(extracted, p + 1, template.date_col)
    /\ ~RowNonBlank(extracted[i])
SameButDate(r, o) ==
    /\ r.src = o.src
    /\ DOMAIN r.cells = DOMAIN o.cells
    /\ \A h \in DOMAIN o.cells \ {template.date_col} : r.cells[h] = o.cells[h]

AUTH_OTP_MAX_ATTEMPTS == 6
AuthRequests == 1..MaxRequests

\* create_email_challenge: attempts 0, used_at None
NewChallenge(purpose) == [attempts |-> 0, used |-> FALSE, purpose |-> purpose]

\* the requests differ in endpoint and in whether they carry the right code
RequestKinds == [kind : {"verify", "confirm"}, code_ok : BOOLEAN]
NewRequest(k) ==
    [kind |-> k.kind, code_ok |-> k.code_ok, pc |-> "start",
     challenge |-> <<>>, status |-> 0]

\* a challenge on which 0 to AUTH_OTP_MAX_ATTEMPTS wrong codes were tried
\* before, and the requests now arriving for it
AuthInit ==
    /\ \E purpose \in {"login", "reset"}, n \in 0..AUTH_OTP_MAX_ATTEMPTS :
         au_ch = [NewChallenge(purpose) EXCEPT !.attempts = n]
    /\ \E ks \in [AuthRequests -> RequestKinds] :
         au_req = [p \in AuthRequests |-> NewRequest(ks[p])]
    /\ au_expired = FALSE /\ au_sessions = 0
    /\ MapIdle /\ HdrIdle /\ AnIdle /\ RepIdle /\ AmtIdle
    /\ RateIdle /\ SessIdle /\ PostIdle

\* lines 469 and 541: challenge = get_email_challenge(...)
GetChallenge(p) ==
    /\ au_req[p].pc = "start"
    /\ au_req' = [au_req EXCEPT ![p].challenge = au_ch, ![p].pc = "read"]
    /\ UNCHANGED <<au_ch, au_expired, au_sessions>>
    /\ UNCHANGED <<engineVars, rateVars, sessVars, postVars>>

\* lines 475-482 and 545-552: the status the checks on the row read raise, 0
\* when they all pass
ChallengeRejection(kind, challenge, expired) ==
    IF kind = "confirm" /\ challenge.purpose # "reset" THEN 400
    ELSE IF challenge.used THEN 400
    ELSE IF challenge.attempts >= AUTH_OTP_MAX_ATTEMPTS THEN 429
    ELSE IF expired THEN 400
    ELSE 0

\* lines 475-489 and 545-558: the checks on the row read, the comparison of
\* the code, and increment_challenge_attempts or mark_challenge_used
CheckCode(p) ==
    /\ au_req[p].pc = "read"
    /\ LET r == au_req[p]
           rejected == ChallengeRejection(r.kind, r.challenge, au_expired)
       IN  IF rejected # 0
           THEN /\ au_req' = [au_req EXCEPT ![p].status = rejected, ![p].pc = "done"]
                /\ UNCHANGED au_ch
           ELSE IF ~r.code_ok
           THEN /\ au_ch' = [au_ch EXCEPT !.attempts = @ + 1]
                /\ au_req' = [au_req EXCEPT ![p].status = 401, ![p].pc = "done"]
           ELSE /\ au_ch' = [au_ch EXCEPT !.used = TRUE]
                /\ au_req' = [au_req EXCEPT ![p].pc = "marked"]
    /\ UNCHANGED <<au_expired, au_sessions>>
    /\ UNCHANGED <<engineVars, rateVars, sessVars, postVars>>

\* lines 490-507 (create_auth_session) and 559-565 (update_user_password)
Succeed(p) ==
    /\ au_req[p].pc = "marked"
    /\ au_sessions' = IF au_req[p].kind = "verify" THEN au_sessions + 1
                      ELSE au_sessions
    /\ au_req' = [au_req EXCEPT ![p].status = 200, ![p].pc = "done"]
    /\ UNCHANGED <<au_ch, au_expired>>
    /\ UNCHANGED <<engineVars, rateVars, sessVars, postVars>>

\* time passes the challenge's expires_at
ChallengeExpires ==
    /\ au_req # <<>> /\ ~au_expired
    /\ au_expired' = TRUE
    /\ UNCHANGED <<au_ch, au_req, au_sessions>>
    /\ UNCHANGED <<engineVars, rateVars, sessVars, postVars>>

AuthNext ==
    \/ \E p \in AuthRequests : GetChallenge(p) \/ CheckCode(p) \/ Succeed(p)
    \/ ChallengeExpires

SpecAuth == AuthInit /\ [][AuthNext]_vars

(***************************************************************************)
(* C26: an email challenge is single-use: at most one /auth/verify or      *)
(* /auth/password-reset/confirm request ever succeeds on it, and at most   *)
(* one auth session is created from it, also when two requests with the    *)
(* right code are processed concurrently.                                  *)
(***************************************************************************)
Succeeded == {p \in DOMAIN au_req : au_req[p].status = 200}

C26_ChallengeIsSingleUse ==
    /\ Cardinality(Succeeded) <= 1
    /\ au_sessions <= 1

(***************************************************************************)
(* C27: the number of wrong codes ever compared with one challenge never   *)
(* exceeds AUTH_OTP_MAX_ATTEMPTS, whatever the interleaving of the         *)
(* requests; once the attempts counter has reached the maximum no request  *)
(* on the challenge succeeds, even with the right code.                    *)
(***************************************************************************)
C27_AttemptsAreBounded ==
    au_req # <<>> =>
        /\ au_ch.attempts <= AUTH_OTP_MAX_ATTEMPTS
        /\ au_ch.attempts >= AUTH_OTP_MAX_ATTEMPTS =>
               \A p \in AuthRequests : au_req[p].pc # "marked"

(***************************************************************************)
(* _check_rate_limit (main.py 148-157) on one bucket of _rate_hits.  The   *)
(* callers are request threads.  A call reads the clock first and takes    *)
(* _rate_lock afterwards, so that time passes and other calls run between  *)
(* the two; what is done under the lock is one step.  Time is counted in   *)
(* whole seconds.                                                          *)
(***************************************************************************)
Callers == 1..MaxCallers

\* the calls of one bucket are made at one call site, with one limit and one
\* window
RateInit ==
    /\ \E limit \in 1..2, window_seconds \in 1..2 :
         rl_thr = [p \in Callers |->
                     [limit |-> limit, window_seconds |-> window_seconds,
                      pc |-> "start", now |-> 0, status |-> 0]]
    /\ rl_clock = 0 /\ rl_hits = <<>>
    /\ MapIdle /\ HdrIdle /\ AnIdle /\ RepIdle /\ AmtIdle
    /\ AuthIdle /\ SessIdle /\ PostIdle

\* line 149: now = time.time()
ReadClock(p) ==
    /\ rl_thr[p].pc = "start"
    /\ rl_thr' = [rl_thr EXCEPT ![p].now = rl_clock, ![p].pc = "read"]
    /\ UNCHANGED <<rl_clock, rl_hits>>
    /\ UNCHANGED <<engineVars, authVars, sessVars, postVars>>

\* line 152: hits = [t for t in hits if (now - t) <= float(window_seconds)]
RecentHits(hits, now, window_seconds) ==
    SelectSeq(hits, LAMBDA t : now - t <= window_seconds)

\* lines 150-157: with _rate_lock: prune, then raise 429 or record the hit
CheckUnderLock(p) ==
    /\ rl_thr[p].pc = "read"
    /\ LET c == rl_thr[p]
           hits == RecentHits(rl_hits, c.now, c.window_seconds)
       IN  IF Len(hits) >= c.limit
           THEN /\ rl_hits' = hits
                /\ rl_thr' = [rl_thr EXCEPT ![p].status = 429, ![p].pc = "done"]
           ELSE /\ rl_hits' = Append(hits, c.now)
                /\ rl_thr' = [rl_thr EXCEPT ![p].status = 200, ![p].pc = "done"]
    /\ UNCHANGED rl_clock
    /\ UNCHANGED <<engineVars, authVars, sessVars, postVars>>

\* a second passes
Tick ==
    /\ rl_thr # <<>> /\ rl_clock < MaxClock
    /\ rl_clock' = rl_clock + 1
    /\ UNCHANGED <<rl_hits, rl_thr>>
    /\ UNCHANGED <<engineVars, authVars, sessVars, postVars>>

RateNext ==
    \/ \E p \in Callers : ReadClock(p) \/ CheckUnderLock(p)
    \/ Tick

SpecRate == RateInit /\ [][RateNext]_vars

(***************************************************************************)
(* C28: of the calls _check_rate_limit admits for a bucket, at most        *)
(* `limit` have their timestamps within any span of window_seconds, also   *)
(* when the calls run concurrently; a rejected call is not recorded as a   *)
(* hit.                                                                    *)
(***************************************************************************)
Admitted == {p \in DOMAIN rl_thr : rl_thr[p].status = 200}
AdmittedWithin(from, span) ==
    {p \in Admitted : rl_thr[p].now >= from /\ rl_thr[p].now <= from + span}

C28_AtMostLimitPerWindow ==
    /\ \A p \in DOMAIN rl_thr : \A from \in 0..MaxClock :
          Cardinality(AdmittedWithin(from, rl_thr[p].window_seconds))
              <= rl_thr[p].limit
    /\ Len(rl_hits) <= Cardinality(Admitted)

(***************************************************************************)
(* _get_auth_session_or_401 and /auth/logout (main.py) on one row of       *)
(* auth_sessions (auth_store.py), for requests that present its session    *)
(* id.  The requests run on threads and interleave at their database       *)
(* calls.  Time is counted in whole hours.                                 *)
(***************************************************************************)
AUTH_SESSION_TTL_HOURS == 12
SessRequests == 1..MaxRequests

\* a session created or touched earlier, that expires within the hours of
\* the model or just after them
SessInit ==
    /\ \E e \in 1..(MaxClock + 1) : se_row = [exists |-> TRUE, expires_at |-> e]
    /\ \E ks \in [SessRequests -> {"auth", "logout"}] :
         se_req = [p \in SessRequests |->
                     [kind |-> ks[p], pc |-> "start", sess |-> <<>>, status |-> 0]]
    /\ se_clock = 0
    /\ MapIdle /\ HdrIdle /\ AnIdle /\ RepIdle /\ AmtIdle
    /\ AuthIdle /\ RateIdle /\ PostIdle

\* lines 297-299: sess = get_auth_session(...), 401 when there is no row
GetSession(p) ==
    /\ se_req[p].kind = "auth" /\ se_req[p].pc = "start"
    /\ se_req' = IF se_row.exists
                 THEN [se_req EXCEPT ![p].sess = se_row, ![p].pc = "read"]
                 ELSE [se_req EXCEPT ![p].status = 401, ![p].pc = "done"]
    /\ UNCHANGED <<se_clock, se_row>>
    /\ UNCHANGED <<engineVars, authVars, rateVars, postVars>>

\* auth_store.py 253-258: DELETE FROM auth_sessions WHERE session_id
delete_auth_session(row) == [row EXCEPT !.exists = FALSE]

\* auth_store.py 239-250: UPDATE auth_sessions SET expires_at WHERE
\* session_id, which changes nothing when the row is gone
touch_auth_session(row, expires_at) ==
    IF row.exists THEN [row EXCEPT !.expires_at = expires_at] ELSE row

\* lines 301-304: the expiry read is compared with the clock; an expired
\* session is deleted and the request gets 401
CheckExpiry(p) ==
    /\ se_req[p].kind = "auth" /\ se_req[p].pc = "read"
    /\ IF se_req[p].sess.expires_at <= se_clock
       THEN /\ se_row' = delete_auth_session(se_row)
            /\ se_req' = [se_req EXCEPT ![p].status = 401, ![p].pc = "done"]
       ELSE /\ se_req' = [se_req EXCEPT ![p].pc = "fresh"]
            /\ UNCHANGED se_row
    /\ UNCHANGED se_clock
    /\ UNCHANGED <<engineVars, authVars, rateVars, postVars>>

\* lines 306-308: touch_auth_session with now + TTL, return sess
TouchAndReturn(p) ==
    /\ se_req[p].kind = "auth" /\ se_req[p].pc = "fresh"
    /\ se_row' = touch_auth_session(se_row, se_clock + AUTH_SESSION_TTL_HOURS)
    /\ se_req' = [se_req EXCEPT ![p].status = 200, ![p].pc = "done"]
    /\ UNCHANGED se_clock
    /\ UNCHANGED <<engineVars, authVars, rateVars, postVars>>

\* lines 584-596: /auth/logout deletes the session
Logout(p) ==
    /\ se_req[p].kind = "logout" /\ se_req[p].pc = "start"
    /\ se_row' = delete_auth_session(se_row)
    /\ se_req' = [se_req EXCEPT ![p].status = 200, ![p].pc = "done"]
    /\ UNCHANGED se_clock
    /\ UNCHANGED <<engineVars, authVars, rateVars, postVars>>

\* an hour passes
HourPasses ==
    /\ se_req # <<>> /\ se_clock < MaxClock
    /\ se_clock' = se_clock + 1
    /\ UNCHANGED <<se_row, se_req>>
    /\ UNCHANGED <<engineVars, authVars, rateVars, postVars>>

SessNext ==
    \/ \E p \in SessRequests :
          GetSession(p) \/ CheckExpiry(p) \/ TouchAndReturn(p) \/ Logout(p)
    \/ HourPasses

SpecSession == SessInit /\ [][SessNext]_vars

(***************************************************************************)
(* C29: a request is authenticated only while the session record exists    *)
(* and its expires_at is strictly after now, and being authenticated moves *)
(* expires_at to now + TTL; a request rejected for expiry leaves no        *)
(* record; a deleted record (logout or expiry) is never re-created and no  *)
(* later or concurrent request with its id is authenticated.               *)
(***************************************************************************)
Authenticates(p) ==
    /\ se_req[p].kind = "auth"
    /\ se_req[p].status # 200 /\ se_req'[p].status = 200

PassesExpiryCheck(p) == se_req[p].pc = "read" /\ se_req'[p].pc = "fresh"

RejectedAsExpired(p) == se_req[p].pc = "read" /\ se_req'[p].status = 401

SessionStep ==
    /\ \A p \in DOMAIN se_req \cap DOMAIN se_req' :
          /\ PassesExpiryCheck(p) =>
                se_row.exists /\ se_row.expires_at > se_clock
          /\ Authenticates(p) =>
                /\ se_row.exists /\ se_row'.exists
                /\ se_row'.expires_at = se_clock + AUTH_SESSION_TTL_HOURS
          /\ RejectedAsExpired(p) => ~se_row'.exists
    /\ (se_row # <<>> /\ se_row' # <<>> /\ ~se_row.exists) => ~se_row'.exists

C29_AcceptedOnlyWhileLive == [][SessionStep]_vars

(***************************************************************************)
(* _post_with_backoff (main.py 1413-1443), one step per call it makes to   *)
(* the outside: _get_valid_access_token, requests.post and                 *)
(* _refresh_access_token.  What the remote side answers is a choice among  *)
(* status codes; requests.post can also raise (no connection, the 30 s     *)
(* timeout), and _get_valid_access_token raises when the session holds no  *)
(* access token (line 1237).  Neither is caught in the function.           *)
(***************************************************************************)
StatusCodes == {200, 201, 400, 401, 404, 429, 500, 502, 503, 504}

\* line 1434: the statuses after which another attempt is made
RetryStatuses_WithNotFound == {404, 429, 500, 502, 503, 504}
RetryStatuses == {429, 500, 502, 503, 504}

\* line 1604: max_retries = max(0, min(8, ...)) at the only call site
PostInit ==
    /\ po_max_retries \in 0..MaxRetries
    /\ po_pc = "token" /\ po_attempt = 0 /\ po_r = 0
    /\ po_posts = 0 /\ po_refreshes = 0 /\ po_result = <<>>
    /\ MapIdle /\ HdrIdle /\ AnIdle /\ RepIdle /\ AmtIdle
    /\ AuthIdle /\ RateIdle /\ SessIdle

\* line 1421: token = _get_valid_access_token(sid, sess), which returns a
\* token or raises HTTPException(401)
GetValidAccessToken ==
    /\ po_pc = "token"
    /\ po_pc' \in {"post", "raised"}
    /\ UNCHANGED <<po_max_retries, po_attempt, po_r, po_posts, po_refreshes, po_result>>
    /\ UNCHANGED <<engineVars, authVars, rateVars, sessVars>>

\* line 1423: r = requests.post(..., timeout=30)
Post ==
    /\ po_pc = "post"
    /\ \/ /\ \E status_code \in StatusCodes : po_r' = status_code
          /\ po_posts' = po_posts + 1
          /\ po_pc' = IF po_r' = 401 /\ po_attempt = 0 THEN "refresh" ELSE "decide"
       \/ /\ po_pc' = "raised"
          /\ UNCHANGED <<po_r, po_posts>>
    /\ UNCHANGED <<po_max_retries, po_attempt, po_refreshes, po_result>>
    /\ UNCHANGED <<engineVars, authVars, rateVars, sessVars>>

\* lines 1425-1427: refreshed = _refresh_access_token(sid, sess), a token
\* or None
Refresh ==
    /\ po_pc = "refresh"
    /\ po_refreshes' = po_refreshes + 1
    /\ po_pc' \in {"repost", "decide"}
    /\ UNCHANGED <<po_max_retries, po_attempt, po_r, po_posts, po_result>>
    /\ UNCHANGED <<engineVars, authVars, rateVars, sessVars>>

\* lines 1428-1429: the POST repeated with the refreshed token
Repost ==
    /\ po_pc = "repost"
    /\ \/ /\ \E status_code \in StatusCodes : po_r' = status_code
          /\ po_posts' = po_posts + 1
          /\ po_pc' = "decide"
       \/ /\ po_pc' = "raised"
          /\ UNCHANGED <<po_r, po_posts>>
    /\ UNCHANGED <<po_max_retries, po_attempt, po_refreshes, po_result>>
    /\ UNCHANGED <<engineVars, authVars, rateVars, sessVars>>

\* lines 1431-1443: return True, return False, or sleep and go round the
\* loop, which ends with "Max retries exceeded" when range() is used up
Decide ==
    /\ po_pc = "decide"
    /\ IF po_r < 400
       THEN /\ po_result' = [ok |-> TRUE, resp |-> po_r]
            /\ po_pc' = "returned"
            /\ UNCHANGED po_attempt
       ELSE IF po_r \notin RetryStatuses \/ po_attempt = po_max_retries
       THEN /\ po_result' = [ok |-> FALSE, resp |-> po_r]
            /\ po_pc' = "returned"
            /\ UNCHANGED po_attempt
       ELSE IF po_attempt + 1 < po_max_retries + 1
       THEN /\ po_attempt' = po_attempt + 1
            /\ po_pc' = "token"
            /\ UNCHANGED po_result
       ELSE /\ po_result' = [ok |-> FALSE, resp |-> 0]
            /\ po_pc' = "returned"
            /\ UNCHANGED po_attempt
    /\ UNCHANGED <<po_max_retries, po_r, po_posts, po_refreshes>>
    /\ UNCHANGED <<engineVars, authVars, rateVars, sessVars>>

PostNext == GetValidAccessToken \/ Post \/ Refresh \/ Repost \/ Decide

SpecPost == PostInit /\ [][PostNext]_vars

\* every step is a call that ends: the POSTs have timeouts of 30 s and
\* 15 s, the sleep is 0.8 * 2^attempt s plus at most 0.25 s
SpecPostLive == SpecPost /\ WF_vars(PostNext)

PostEnded == po_pc \in {"returned", "raised"}

PostWithinBounds ==
    po_pc # "idle" =>
        /\ po_attempt <= po_max_retries
        /\ po_refreshes <= 1
        /\ po_posts <= po_attempt + 1 + po_refreshes
        /\ po_pc \in {"refresh", "repost"} => po_attempt = 0 /\ po_r = 401
        /\ (po_attempt > 0 /\ po_pc \in {"token", "post"}) =>
               po_r \in {429, 500, 502, 503, 504}
        /\ po_pc = "returned" =>
               /\ po_result.ok <=> po_result.resp \in {200, 201}
               /\ po_result.resp = po_r
               /\ ~po_result.ok =>
                      \/ po_r \notin {429, 500, 502, 503, 504}
                      \/ po_attempt = po_max_retries

====
